---- MODULE Spec2Model ----
(***************************************************************************)
(* A model of the generic shortest-path searches of src/utils/             *)
(* shortest_path.rs (dijkstra and a_start) and of their use by day12.rs.   *)
(*                                                                         *)
(* A vertex (TVertex / TNode) is a number of 1..NumNodes, ordered as Ord   *)
(* orders it.  The caller's callbacks `neighbors` and `neighbor_distance`  *)
(* are given by the variable `graph`, a map from directed edges to costs.  *)
(* Option<T> is a sequence: None is << >> and Some(x) is << x >>.          *)
(* A HashMap is a function whose DOMAIN is the key set.                    *)
(***************************************************************************)
EXTENDS Integers, FiniteSets, Sequences, TLC

\* ---------------------------------------------------------------- bounds
NumNodes == 4
MaxCost == 1
MaxEdges == 3
MaxEdgesAStar == 4
MaxHeuristic == 1
MaxNegCost == 1
MaxEdgesAny == 3
MaxEdgesHeur == 4
MaxNodesLive == 3
MaxEdgesLive == 4
MaxEdgesAnyLive == 3
MaxDim == 2
MaxValue == 2
MaxCalls == 2
MaxElev == 3
MaxLines == 2
MaxChars == 4

Nodes == 1..NumNodes
Costs == 0..MaxCost
Calls == {1, 2}

None == << >>
Some(x) == << x >>

\* ------------------------------------------------------------- variables
VARIABLES
    graph,                \* the graph behind the callbacks: [edges -> cost]
    all_nodes,            \* dijkstra's all_nodes argument
    start,                \* per call of dijkstra: its start argument
    goal,                 \* per call: its goal argument (an Option)
    reversed,             \* per call: TRUE when the callbacks walk edges backwards
    unvisited,            \* per call: the unvisited HashSet
    tentative_distances,  \* per call: the tentative_distances HashMap
    current,              \* per call: the current vertex
    pc,                   \* per call: "idle", "loop", "returned" or "panic"
    distance_to_end,      \* per call: the returned distance_to_end
    iterations,           \* per call: how often the body of the loop was entered
    heuristic,            \* a_start's heuristic callback: [node -> estimate]
    open_set,             \* a_start's open_set BTreeSet
    came_from,            \* a_start's came_from HashMap
    g_score,              \* a_start's g_score HashMap
    f_score,              \* a_start's f_score HashMap
    a_current,            \* a_start's current of the last iteration (an Option)
    a_pc,                 \* a_start: "idle", "loop", "returned", "panic" or "diverged"
    a_result,             \* a_start's returned Option<Vec<TNode>>
    input,                \* day12: the text given to HeightMap::from_str
    height_map,           \* day12: from_str's Result<HeightMap>
    shortest_from_end,    \* day12, smart: the grid of the search from end
    smart_pc,             \* day12, smart: "idle", "search", "min", "returned", "panic"
    smart_result,         \* day12, smart: the returned Option<i32>
    rayon_dists,          \* day12, rayon: [searched sea-level point -> its dist]
    rayon_pc,             \* day12, rayon: "idle", "search", "returned", "panic"
    rayon_result,         \* day12, rayon: the returned Option<i32>
    workers,              \* day12: [start cell -> the locals of its search for end]
    grid,                 \* vec2d: the Vec2D the methods are called on (self)
    other,                \* vec2d: the Vec2D given to op
    vec_call              \* vec2d: the last call: its arguments, self before it, its result

\* dijkstra's arguments and the callbacks' graph
inputs == << graph, all_nodes, start, goal, reversed, heuristic >>
\* the locals of the calls of dijkstra
dvars == << unvisited, tentative_distances, current, pc, distance_to_end, iterations >>
\* the locals of the call of a_start
avars == << open_set, came_from, g_score, f_score, a_current, a_pc, a_result >>

\* day12's height map and the locals of its two part-2 functions
hvars == << input, height_map, shortest_from_end, smart_pc, smart_result,
            rayon_dists, rayon_pc, rayon_result, workers >>
\* the Vec2D under test
gvars == << grid, other, vec_call >>

vars == << inputs, dvars, avars, hvars, gvars >>

\* ------------------------------------------------------------- callbacks
\* The edges a call's callbacks see: the graph's, or the graph's reversed.
HasEdge(g, rv, u, v) == IF rv THEN << v, u >> \in DOMAIN g ELSE << u, v >> \in DOMAIN g

\* neighbor_distance(&u, &v)
neighbor_distance(g, rv, u, v) == IF rv THEN g[<< v, u >>] ELSE g[<< u, v >>]

RECURSIVE SeqOfSet(_)
\* The elements of a set of vertices, in ascending order.
SeqOfSet(S) ==
    IF S = {} THEN << >>
    ELSE LET m == CHOOSE x \in S : \A y \in S : x <= y
         IN << m >> \o SeqOfSet(S \ {m})

\* neighbors(&u): the Vec of u's successors.
neighbors(g, rv, u) == SeqOfSet({v \in Nodes : HasEdge(g, rv, u, v)})

\* -------------------------------------------------------------- dijkstra
\* HashMap::insert
Insert(m, k, v) == [x \in DOMAIN m \cup {k} |-> IF x = k THEN v ELSE m[x]]

RECURSIVE RelaxKeepsFirst(_, _, _, _, _, _, _)
\* Relax with the comparison lost: an entry, once written, is never lowered.
RelaxKeepsFirst(g, rv, unv, cur, td0, nbrs, td) ==
    IF nbrs = << >> THEN td
    ELSE LET neighbor == Head(nbrs)
             new_tentative_distance == td0 + neighbor_distance(g, rv, cur, neighbor)
             td2 == IF neighbor \notin unv \/ neighbor \in DOMAIN td THEN td
                    ELSE Insert(td, neighbor, new_tentative_distance)
         IN RelaxKeepsFirst(g, rv, unv, cur, td0, Tail(nbrs), td2)

\* Relax leaving the for loop after its first neighbour.
RelaxFirstOnly(g, rv, unv, cur, td0, nbrs, td) ==
    IF nbrs = << >> THEN td
    ELSE LET neighbor == Head(nbrs)
             new_tentative_distance == td0 + neighbor_distance(g, rv, cur, neighbor)
         IN IF neighbor \notin unv THEN td
            ELSE IF neighbor \notin DOMAIN td \/ new_tentative_distance < td[neighbor]
                 THEN Insert(td, neighbor, new_tentative_distance)
                 ELSE td

RECURSIVE RelaxAlwaysWrite(_, _, _, _, _, _, _)
\* Relax without the comparison: every unvisited neighbour is written.
RelaxAlwaysWrite(g, rv, unv, cur, td0, nbrs, td) ==
    IF nbrs = << >> THEN td
    ELSE LET neighbor == Head(nbrs)
             new_tentative_distance == td0 + neighbor_distance(g, rv, cur, neighbor)
             td2 == IF neighbor \notin unv THEN td
                    ELSE Insert(td, neighbor, new_tentative_distance)
         IN RelaxAlwaysWrite(g, rv, unv, cur, td0, Tail(nbrs), td2)

RECURSIVE RelaxNoFilter(_, _, _, _, _, _, _)
\* Relax without the filter on the unvisited set.
RelaxNoFilter(g, rv, unv, cur, td0, nbrs, td) ==
    IF nbrs = << >> THEN td
    ELSE LET neighbor == Head(nbrs)
             new_tentative_distance == td0 + neighbor_distance(g, rv, cur, neighbor)
             td2 == IF neighbor \notin DOMAIN td \/ new_tentative_distance < td[neighbor]
                    THEN Insert(td, neighbor, new_tentative_distance)
                    ELSE td
         IN RelaxNoFilter(g, rv, unv, cur, td0, Tail(nbrs), td2)

RECURSIVE Relax(_, _, _, _, _, _, _)
\* The for loop over the unvisited neighbours of cur; td0 is the tentative
\* distance of cur read before the loop.
Relax(g, rv, unv, cur, td0, nbrs, td) ==
    IF nbrs = << >> THEN td
    ELSE LET neighbor == Head(nbrs)
             new_tentative_distance == td0 + neighbor_distance(g, rv, cur, neighbor)
             td2 == IF neighbor \notin unv THEN td
                    ELSE IF neighbor \notin DOMAIN td \/ new_tentative_distance < td[neighbor]
                         THEN Insert(td, neighbor, new_tentative_distance)
                         ELSE td
         IN Relax(g, rv, unv, cur, td0, Tail(nbrs), td2)

\* MinUnvisited with max_by_key in the place of min_by_key.
MinUnvisitedMax(td, unv) ==
    {p \in DOMAIN td \cap unv : \A q \in DOMAIN td \cap unv : td[p] >= td[q]}

\* MinUnvisited without min_by_key: the first unvisited key of the iteration.
MinUnvisitedAny(td, unv) == DOMAIN td \cap unv

\* MinUnvisited taking the unvisited vertices, with or without an entry.
MinUnvisitedNoEntry(td, unv) == unv

\* The candidates of min_by_key: the unvisited keys of the least distance.
\* The map's iteration order decides which of them is the first.
MinUnvisited(td, unv) ==
    {p \in DOMAIN td \cap unv : \A q \in DOMAIN td \cap unv : td[p] <= td[q]}

\* DijkstraAdvance without the test for the goal.
DijkstraAdvanceNoGoal(c, cur, td, unv) ==
    /\ tentative_distances' = [tentative_distances EXCEPT ![c] = td]
    /\ unvisited' = [unvisited EXCEPT ![c] = unv]
    /\ \E candidates \in {MinUnvisited(td, unv)} :
          IF candidates = {}
          THEN /\ distance_to_end' = [distance_to_end EXCEPT ![c] = None]
               /\ pc' = [pc EXCEPT ![c] = "returned"]
               /\ UNCHANGED current
          ELSE /\ \E next \in candidates : current' = [current EXCEPT ![c] = next]
               /\ UNCHANGED << pc, distance_to_end >>

\* What one iteration of dijkstra's loop does after the relaxations left the
\* map td: the current vertex leaves the unvisited set, then the call returns
\* or the next current vertex is chosen.
DijkstraAdvance(c, cur, td, unv) ==
    /\ tentative_distances' = [tentative_distances EXCEPT ![c] = td]
    /\ unvisited' = [unvisited EXCEPT ![c] = unv]
    /\ IF goal[c] = Some(cur)
       THEN /\ distance_to_end' = [distance_to_end EXCEPT ![c] = Some(td[cur])]
            /\ pc' = [pc EXCEPT ![c] = "returned"]
            /\ UNCHANGED current
       ELSE \E candidates \in {MinUnvisited(td, unv)} :
               IF candidates = {}
               THEN /\ distance_to_end' = [distance_to_end EXCEPT ![c] = None]
                    /\ pc' = [pc EXCEPT ![c] = "returned"]
                    /\ UNCHANGED current
               ELSE /\ \E next \in candidates : current' = [current EXCEPT ![c] = next]
                    /\ UNCHANGED << pc, distance_to_end >>

\* DijkstraIter without unvisited.remove(&current).
DijkstraIterNoRemove(c) ==
    /\ pc[c] = "loop"
    /\ iterations' = [iterations EXCEPT ![c] = @ + 1]
    /\ IF current[c] \notin DOMAIN tentative_distances[c]
       THEN /\ pc' = [pc EXCEPT ![c] = "panic"]
            /\ UNCHANGED << unvisited, tentative_distances, current, distance_to_end >>
       ELSE \E td \in {Relax(graph, reversed[c], unvisited[c], current[c],
                             tentative_distances[c][current[c]],
                             neighbors(graph, reversed[c], current[c]),
                             tentative_distances[c])} :
               DijkstraAdvance(c, current[c], td, unvisited[c])
    /\ UNCHANGED << inputs, avars, hvars, gvars >>

\* One iteration of dijkstra's loop, for call c.
DijkstraIter(c) ==
    /\ pc[c] = "loop"
    /\ iterations' = [iterations EXCEPT ![c] = @ + 1]
    /\ IF current[c] \notin DOMAIN tentative_distances[c]
       THEN /\ pc' = [pc EXCEPT ![c] = "panic"]
            /\ UNCHANGED << unvisited, tentative_distances, current, distance_to_end >>
       ELSE \E td \in {Relax(graph, reversed[c], unvisited[c], current[c],
                             tentative_distances[c][current[c]],
                             neighbors(graph, reversed[c], current[c]),
                             tentative_distances[c])} :
               DijkstraAdvance(c, current[c], td, unvisited[c] \ {current[c]})
    /\ UNCHANGED << inputs, avars, hvars, gvars >>

\* --------------------------------------------------------------- a_start
RECURSIVE Reverse(_)
\* Vec::reverse
Reverse(v) == IF v = << >> THEN << >> ELSE Append(Reverse(Tail(v)), Head(v))

\* What reconstruct_path yields when its while loop never ends: no Vec of nodes.
Diverged == << 0 >>

RECURSIVE ReconstructLoop(_, _, _, _)
\* The while loop of reconstruct_path.  A walk of more steps than came_from
\* has keys has come back to a key: the loop never ends.
ReconstructLoop(cf, cur, total_path, steps) ==
    IF cur \notin DOMAIN cf THEN Reverse(total_path)
    ELSE IF steps > Cardinality(DOMAIN cf) THEN Diverged
    ELSE ReconstructLoop(cf, cf[cur], Append(total_path, cf[cur]), steps + 1)

\* reconstruct_path with current pushed before the walk, as the textbook has it.
reconstruct_pathWithCurrent(cf, cur) ==
    LET walked == ReconstructLoop(cf, cur, << >>, 1)
    IN IF walked = Diverged THEN Diverged ELSE Append(walked, cur)

\* reconstruct_path(&came_from, &current)
reconstruct_path(cf, cur) == ReconstructLoop(cf, cur, << >>, 1)

\* The open-set nodes that filter_map keeps: those with an f-score.
Scored(open, f) == open \cap DOMAIN f

\* MinOpen with max_by_key in the place of min_by_key.
MaxOpen(open, f) ==
    CHOOSE p \in Scored(open, f) :
        \A q \in Scored(open, f) : f[p] > f[q] \/ (f[p] = f[q] /\ p >= q)

RECURSIVE min_by_keyLast(_, _, _)
\* min_by_key keeping the later of two items of equal key.
min_by_keyLast(items, f, best) ==
    IF items = << >> THEN best
    ELSE min_by_keyLast(Tail(items), f,
                        IF f[best] >= f[Head(items)] THEN Head(items) ELSE best)

RECURSIVE min_by_key(_, _, _)
\* Iterator::min_by_key over the items that follow best: a later item takes
\* the place of best only when its key is strictly smaller.
min_by_key(items, f, best) ==
    IF items = << >> THEN best
    ELSE min_by_key(Tail(items), f,
                    IF f[best] > f[Head(items)] THEN Head(items) ELSE best)

\* MinOpen with the last of the nodes of the least f-score.
MinOpenLast(open, f) ==
    LET items == SeqOfSet(Scored(open, f))
    IN min_by_keyLast(Tail(items), f, Head(items))

\* The selection of current: min_by_key over the BTreeSet's ascending
\* iteration, filtered to the nodes that have an f-score.
MinOpen(open, f) ==
    LET items == SeqOfSet(Scored(open, f))
    IN min_by_key(Tail(items), f, Head(items))

RECURSIVE AStarRelaxNoFScore(_, _, _, _, _)
\* AStarRelax without the insertion into f_score.
AStarRelaxNoFScore(g, h, cur, nbrs, st) ==
    IF nbrs = << >> THEN st
    ELSE LET neighbor == Head(nbrs)
             tentative_g_score == st.g_score[cur] + neighbor_distance(g, FALSE, cur, neighbor)
             st2 == IF neighbor \notin DOMAIN st.g_score
                       \/ tentative_g_score < st.g_score[neighbor]
                    THEN [came_from |-> Insert(st.came_from, neighbor, cur),
                          g_score |-> Insert(st.g_score, neighbor, tentative_g_score),
                          f_score |-> st.f_score,
                          open_set |-> st.open_set \cup {neighbor}]
                    ELSE st
         IN AStarRelaxNoFScore(g, h, cur, Tail(nbrs), st2)

RECURSIVE AStarRelaxOrEqual(_, _, _, _, _)
\* AStarRelax that also takes a tentative g-score equal to the recorded one.
AStarRelaxOrEqual(g, h, cur, nbrs, st) ==
    IF nbrs = << >> THEN st
    ELSE LET neighbor == Head(nbrs)
             tentative_g_score == st.g_score[cur] + neighbor_distance(g, FALSE, cur, neighbor)
             st2 == IF neighbor \notin DOMAIN st.g_score
                       \/ tentative_g_score <= st.g_score[neighbor]
                    THEN [came_from |-> Insert(st.came_from, neighbor, cur),
                          g_score |-> Insert(st.g_score, neighbor, tentative_g_score),
                          f_score |-> Insert(st.f_score, neighbor, tentative_g_score + h[neighbor]),
                          open_set |-> st.open_set \cup {neighbor}]
                    ELSE st
         IN AStarRelaxOrEqual(g, h, cur, Tail(nbrs), st2)

RECURSIVE AStarRelaxNoReopen(_, _, _, _, _)
\* AStarRelax that puts a neighbour into the open set only when it has no
\* g-score yet: a node that left the open set never comes back.
AStarRelaxNoReopen(g, h, cur, nbrs, st) ==
    IF nbrs = << >> THEN st
    ELSE LET neighbor == Head(nbrs)
             tentative_g_score == st.g_score[cur] + neighbor_distance(g, FALSE, cur, neighbor)
             st2 == IF neighbor \notin DOMAIN st.g_score
                       \/ tentative_g_score < st.g_score[neighbor]
                    THEN [came_from |-> Insert(st.came_from, neighbor, cur),
                          g_score |-> Insert(st.g_score, neighbor, tentative_g_score),
                          f_score |-> Insert(st.f_score, neighbor, tentative_g_score + h[neighbor]),
                          open_set |-> IF neighbor \in DOMAIN st.g_score THEN st.open_set
                                       ELSE st.open_set \cup {neighbor}]
                    ELSE st
         IN AStarRelaxNoReopen(g, h, cur, Tail(nbrs), st2)

RECURSIVE AStarRelax(_, _, _, _, _)
\* The for loop over the neighbours of cur; st holds the four collections.
AStarRelax(g, h, cur, nbrs, st) ==
    IF nbrs = << >> THEN st
    ELSE LET neighbor == Head(nbrs)
             tentative_g_score == st.g_score[cur] + neighbor_distance(g, FALSE, cur, neighbor)
             st2 == IF neighbor \notin DOMAIN st.g_score
                       \/ tentative_g_score < st.g_score[neighbor]
                    THEN [came_from |-> Insert(st.came_from, neighbor, cur),
                          g_score |-> Insert(st.g_score, neighbor, tentative_g_score),
                          f_score |-> Insert(st.f_score, neighbor, tentative_g_score + h[neighbor]),
                          open_set |-> st.open_set \cup {neighbor}]
                    ELSE st
         IN AStarRelax(g, h, cur, Tail(nbrs), st2)

\* a_start returns r, or never returns when r is Diverged.
AStarReturn(r) ==
    /\ a_pc' = IF r = Some(Diverged) THEN "diverged" ELSE "returned"
    /\ a_result' = IF r = Some(Diverged) THEN None ELSE r
    /\ UNCHANGED << open_set, came_from, g_score, f_score >>

\* AStarIter with the test for the goal moved behind the relaxations.
AStarIterLateGoal ==
    /\ a_pc = "loop"
    /\ IF open_set = {}
       THEN AStarReturn(None) /\ UNCHANGED a_current
       ELSE IF Scored(open_set, f_score) = {}
       THEN /\ a_pc' = "panic"
            /\ UNCHANGED << open_set, came_from, g_score, f_score, a_current, a_result >>
       ELSE \E cur \in {MinOpen(open_set, f_score)} :
               /\ a_current' = Some(cur)
               /\ \E st \in {AStarRelax(graph, heuristic, cur, neighbors(graph, FALSE, cur),
                                          [open_set |-> open_set \ {cur}, came_from |-> came_from,
                                           g_score |-> g_score, f_score |-> f_score])} :
                       /\ open_set' = st.open_set
                       /\ came_from' = st.came_from
                       /\ g_score' = st.g_score
                       /\ f_score' = st.f_score
                       /\ IF Some(cur) = goal[1]
                          THEN LET r == Some(reconstruct_path(st.came_from, cur))
                               IN /\ a_pc' = IF r = Some(Diverged) THEN "diverged" ELSE "returned"
                                  /\ a_result' = IF r = Some(Diverged) THEN None ELSE r
                          ELSE UNCHANGED << a_pc, a_result >>
    /\ UNCHANGED << inputs, dvars, hvars, gvars >>

\* One test of a_start's while condition with, when it holds, one iteration
\* of the loop.  a_start is called with the start and the goal of call 1.
AStarIter ==
    /\ a_pc = "loop"
    /\ IF open_set = {}
       THEN AStarReturn(None) /\ UNCHANGED a_current
       ELSE IF Scored(open_set, f_score) = {}
       THEN /\ a_pc' = "panic"
            /\ UNCHANGED << open_set, came_from, g_score, f_score, a_current, a_result >>
       ELSE \E cur \in {MinOpen(open_set, f_score)} :
               /\ a_current' = Some(cur)
               /\ IF Some(cur) = goal[1]
                  THEN AStarReturn(Some(reconstruct_path(came_from, cur)))
                  ELSE \E st \in {AStarRelax(graph, heuristic, cur, neighbors(graph, FALSE, cur),
                                             [open_set |-> open_set \ {cur}, came_from |-> came_from,
                                              g_score |-> g_score, f_score |-> f_score])} :
                          /\ open_set' = st.open_set
                          /\ came_from' = st.came_from
                          /\ g_score' = st.g_score
                          /\ f_score' = st.f_score
                          /\ UNCHANGED << a_pc, a_result >>
    /\ UNCHANGED << inputs, dvars, hvars, gvars >>

\* The caller's call of dijkstra with the start and goal a_start was given,
\* made once a_start returned.
CallDijkstra ==
    /\ a_pc = "returned"
    /\ pc[1] = "idle"
    /\ pc' = [pc EXCEPT ![1] = "loop"]
    /\ UNCHANGED << inputs, avars, hvars, gvars, unvisited, tentative_distances,
                    current, distance_to_end, iterations >>

\* ------------------------------------------------------- reference values
RECURSIVE Closure(_, _, _)
\* The vertices reachable from those of S over the edges the callbacks show.
Closure(g, rv, S) ==
    LET T == S \cup {v \in Nodes : \E u \in S : HasEdge(g, rv, u, v)}
    IN IF T = S THEN S ELSE Closure(g, rv, T)

Reachable(g, rv, s) == Closure(g, rv, {s})

RECURSIVE PathCosts(_, _, _, _, _)
\* The total costs of the simple paths from u to t that avoid the vertices of
\* seen, by exhaustive enumeration: one path per way of walking on from u.
PathCosts(g, rv, u, t, seen) ==
    IF u = t THEN {0}
    ELSE UNION {{neighbor_distance(g, rv, u, v) + x : x \in PathCosts(g, rv, v, t, seen \cup {v})} :
                   v \in {w \in Nodes \ seen : HasEdge(g, rv, u, w)}}

\* The costs of all the simple paths from s to t.
SimplePathCosts(g, rv, s, t) == PathCosts(g, rv, s, t, {s})

\* p is a walk of the graph: each step is an edge.
IsWalk(g, rv, p) == \A i \in 1..(Len(p) - 1) : HasEdge(g, rv, p[i], p[i + 1])

RECURSIVE WalkCost(_, _, _)
\* The total edge cost of walk p.
WalkCost(g, rv, p) ==
    IF Len(p) <= 1 THEN 0
    ELSE neighbor_distance(g, rv, p[1], p[2]) + WalkCost(g, rv, Tail(p))

\* The least of a non-empty set of numbers.
Least(S) == CHOOSE x \in S : \A y \in S : x <= y

\* ----------------------------------------------------------------- vec2d
\* Result<T>: Err is << >> and Ok(x) is << x >>.
Ok(x) == << x >>
Err == << >>
\* Option::unwrap / Result::unwrap on a value its caller found present.
unwrap(o) == o[1]

\* Vec2D::new; rows and columns are counted from 0, sequences from 1.
Vec2D_new(rows, cols, value) ==
    [values |-> [r \in 1..rows |-> [c \in 1..cols |-> value]],
     rows |-> rows, cols |-> cols]

\* Vec2D::get with the row taken modulo the number of rows.
Vec2D_getWrapped(v, row, col) ==
    IF v.values # << >> /\ col + 1 \in DOMAIN v.values[(row % Len(v.values)) + 1]
    THEN Some(v.values[(row % Len(v.values)) + 1][col + 1])
    ELSE None

\* Vec2D::get: None outside the grid.
Vec2D_get(v, row, col) ==
    IF row + 1 \in DOMAIN v.values /\ col + 1 \in DOMAIN v.values[row + 1]
    THEN Some(v.values[row + 1][col + 1])
    ELSE None

\* Vec2D::set writing the whole row.
Vec2D_setRow(v, row, col, value) ==
    IF row + 1 \in DOMAIN v.values /\ col + 1 \in DOMAIN v.values[row + 1]
    THEN [v EXCEPT !.values[row + 1] = [c \in DOMAIN v.values[row + 1] |-> value]]
    ELSE v

\* Vec2D::set: the grid after the call; outside the grid nothing is written
\* (the call returns None, which day12 never looks at).
Vec2D_set(v, row, col, value) ==
    IF row + 1 \in DOMAIN v.values /\ col + 1 \in DOMAIN v.values[row + 1]
    THEN [v EXCEPT !.values[row + 1][col + 1] = value]
    ELSE v

\* The unit value ().
Unit == << >>

\* Vec2D::set: what the call returns.
Vec2D_set_ret(v, row, col) ==
    IF row + 1 \in DOMAIN v.values /\ col + 1 \in DOMAIN v.values[row + 1]
    THEN Some(Unit)
    ELSE None

\* The combining functions given to op: fn(&T, &T) -> T.
Ops == {"add", "sub"}
Apply(f, a, b) == IF f = "add" THEN a + b ELSE a - b

\* Vec2D::op with the arguments of the combining function exchanged.
Vec2D_opSwapped(self, oth, f) ==
    IF self.rows # oth.rows \/ self.cols # oth.cols
    THEN [self |-> self, ret |-> Err]
    ELSE [self |-> [self EXCEPT !.values =
                       [r \in 1..self.rows |->
                           [c \in 1..self.cols |->
                               Apply(f, oth.values[r][c], self.values[r][c])]]],
          ret |-> Ok(Unit)]

\* Vec2D::op without the test of the dimensions, on the cells both have.
Vec2D_opNoDimCheck(self, oth, f) ==
    [self |-> [self EXCEPT !.values =
                  [r \in 1..self.rows |->
                      [c \in 1..self.cols |->
                          IF r <= oth.rows /\ c <= oth.cols
                          THEN Apply(f, self.values[r][c], oth.values[r][c])
                          ELSE self.values[r][c]]]],
     ret |-> Ok(Unit)]

\* Vec2D::op: self after the call and the Result it returns.
Vec2D_op(self, oth, f) ==
    IF self.rows # oth.rows \/ self.cols # oth.cols
    THEN [self |-> self, ret |-> Err]
    ELSE [self |-> [self EXCEPT !.values =
                       [r \in 1..self.rows |->
                           [c \in 1..self.cols |->
                               Apply(f, self.values[r][c], oth.values[r][c])]]],
          ret |-> Ok(Unit)]

RECURSIVE Flatten(_)
\* Iterator::flatten over the rows.
Flatten(rows) == IF rows = << >> THEN << >> ELSE Head(rows) \o Flatten(Tail(rows))

\* Vec2D::iter, collected.
Vec2D_iter(v) == Flatten(v.values)

\* A call of set on the grid under test.
VecSet(row, col, value) ==
    /\ vec_call.fn # "none"
    /\ vec_call.n < MaxCalls
    /\ grid' = Vec2D_set(grid, row, col, value)
    /\ vec_call' = [fn |-> "set", n |-> vec_call.n + 1, row |-> row, col |-> col,
                    value |-> value, op |-> "", before |-> grid,
                    ret |-> Vec2D_set_ret(grid, row, col)]
    /\ UNCHANGED << inputs, dvars, avars, hvars, other >>

\* A call of op on the grid under test, with `other`.
VecOp(f) ==
    /\ vec_call.fn # "none"
    /\ vec_call.n < MaxCalls
    /\ grid' = Vec2D_op(grid, other, f).self
    /\ vec_call' = [fn |-> "op", n |-> vec_call.n + 1, row |-> 0, col |-> 0,
                    value |-> 0, op |-> f, before |-> grid,
                    ret |-> Vec2D_op(grid, other, f).ret]
    /\ UNCHANGED << inputs, dvars, avars, hvars, other >>

\* No Vec2D is under test.
NoVec2D ==
    /\ grid = Vec2D_new(0, 0, 0)
    /\ other = Vec2D_new(0, 0, 0)
    /\ vec_call = [fn |-> "none"]

\* ----------------------------------------------------------------- day12
\* The alphabet 'a'..'z' is cut to its first MaxElev letters: the last of
\* them stands for 'z', the elevation of the cell marked E.
Lowercase ==
    << "a", "b", "c", "d", "e", "f", "g", "h", "i", "j", "k", "l", "m",
       "n", "o", "p", "q", "r", "s", "t", "u", "v", "w", "x", "y", "z" >>
Alphabet == SubSeq(Lowercase, 1, MaxElev)

Point(row, col) == [row |-> row, col |-> col]

\* Point's derived Ord: by row, then by col.
PointLess(p, q) == p.row < q.row \/ (p.row = q.row /\ p.col < q.col)

\* parse_elevation over the alphabet abc ('a'..'z' or its cut):
\* c as i32 - 'a' as i32 + 1 for a letter, an error otherwise.
parse_elevation(abc, c) ==
    IF \E i \in DOMAIN abc : abc[i] = c
    THEN Ok(CHOOSE i \in DOMAIN abc : abc[i] = c)
    ELSE Err

RECURSIVE FromStrChars(_, _, _, _, _)
\* from_str's inner loop over line.chars().enumerate(), from column col on;
\* st is Ok of the map, start and end so far, or the error of the `?`.
FromStrChars(abc, line, row, col, st) ==
    IF st = Err \/ col >= Len(line) THEN st
    ELSE LET c == line[col + 1]
             hm == unwrap(st)
         IN FromStrChars(abc, line, row, col + 1,
                IF c = "S"
                THEN Ok([hm EXCEPT !.start = Some(Point(row, col)),
                                   !.map = Vec2D_set(hm.map, row, col,
                                               unwrap(parse_elevation(abc, abc[1])))])
                ELSE IF c = "E"
                THEN Ok([hm EXCEPT !.end = Some(Point(row, col)),
                                   !.map = Vec2D_set(hm.map, row, col,
                                               unwrap(parse_elevation(abc, abc[Len(abc)])))])
                ELSE IF parse_elevation(abc, c) = Err
                THEN Err
                ELSE Ok([hm EXCEPT !.map = Vec2D_set(hm.map, row, col,
                                               unwrap(parse_elevation(abc, c)))]))

RECURSIVE FromStrLines(_, _, _, _)
\* from_str's outer loop over s.lines().enumerate(), from line row on.
FromStrLines(abc, s, row, st) ==
    IF st = Err \/ row >= Len(s) THEN st
    ELSE FromStrLines(abc, s, row + 1, FromStrChars(abc, s[row + 1], row, 0, st))

\* HeightMap::from_str, over the alphabet abc, of a text given as the
\* sequence of its lines: the grid has as many columns as the first line has
\* characters.
from_str(abc, s) ==
    LET rows == Len(s)
        cols == IF s = << >> THEN 0 ELSE Len(s[1])
        st == FromStrLines(abc, s, 0,
                  Ok([map |-> Vec2D_new(rows, cols, 0), start |-> None, end |-> None]))
    IN  IF st = Err \/ unwrap(st).start = None \/ unwrap(st).end = None
        THEN Err
        ELSE Ok([map |-> unwrap(st).map,
                 start |-> unwrap(unwrap(st).start),
                 end |-> unwrap(unwrap(st).end)])

\* HeightMap::neighbors: up, down, left, right.  It is called on cells of
\* the grid only, where rows - 1 and cols - 1 do not underflow.
HeightMap_neighbors(hm, point) ==
    (IF point.row > 0 THEN << Point(point.row - 1, point.col) >> ELSE << >>)
    \o (IF point.row < hm.map.rows - 1
        THEN << Point(point.row + 1, point.col) >> ELSE << >>)
    \o (IF point.col > 0 THEN << Point(point.row, point.col - 1) >> ELSE << >>)
    \o (IF point.col < hm.map.cols - 1
        THEN << Point(point.row, point.col + 1) >> ELSE << >>)

\* movable_neighbors without the step up: the neighbours that are no higher.
movable_neighborsNoClimb(hm, point) ==
    LET height_at_point == unwrap(Vec2D_get(hm.map, point.row, point.col))
        Movable(p) == unwrap(Vec2D_get(hm.map, p.row, p.col)) <= height_at_point
    IN  SelectSeq(HeightMap_neighbors(hm, point), Movable)

\* HeightMap::movable_neighbors: the neighbours at most one higher.
movable_neighbors(hm, point) ==
    LET height_at_point == unwrap(Vec2D_get(hm.map, point.row, point.col))
        Movable(p) == unwrap(Vec2D_get(hm.map, p.row, p.col)) <= height_at_point + 1
    IN  SelectSeq(HeightMap_neighbors(hm, point), Movable)

\* HeightMap::movable_neighbors_rev: the neighbours point is at most one
\* higher than.
movable_neighbors_rev(hm, point) ==
    LET height_at_point == unwrap(Vec2D_get(hm.map, point.row, point.col))
        Movable(p) == height_at_point <= unwrap(Vec2D_get(hm.map, p.row, p.col)) + 1
    IN  SelectSeq(HeightMap_neighbors(hm, point), Movable)

\* The get_neighbors closure a search is given.
get_neighbors(hm, rev, p) ==
    IF rev THEN movable_neighbors_rev(hm, p) ELSE movable_neighbors(hm, p)

\* The cells of a grid, as the loops over 0..rows and 0..cols visit them.
RowMajor(map) ==
    [i \in 1..(map.rows * map.cols) |-> Point((i - 1) \div map.cols, (i - 1) % map.cols)]

AllPoints(map) == {RowMajor(map)[i] : i \in DOMAIN RowMajor(map)}

RECURSIVE Day12Relax(_, _, _, _)
\* shortest_path_dijkstra's loop over the unvisited neighbours of current.
Day12Relax(nbrs, unv, tentative_distance, td) ==
    IF nbrs = << >> THEN td
    ELSE LET neighbor == Head(nbrs)
             new_tentative_distance == tentative_distance + 1
             current_tentative_distance ==
                 unwrap(Vec2D_get(td, neighbor.row, neighbor.col))
         IN Day12Relax(Tail(nbrs), unv, tentative_distance,
                IF /\ neighbor \in unv
                   /\ \/ current_tentative_distance = None
                      \/ new_tentative_distance < unwrap(current_tentative_distance)
                THEN Vec2D_set(td, neighbor.row, neighbor.col,
                               Some(new_tentative_distance))
                ELSE td)

\* shortest_path_dijkstra's `next`: the first, in the BTreeSet's order, of
\* the unvisited points of smallest tentative distance.
Day12Next(td, unv) ==
    LET cand == {p \in unv : unwrap(Vec2D_get(td, p.row, p.col)) # None}
        d(p) == unwrap(unwrap(Vec2D_get(td, p.row, p.col)))
    IN  IF cand = {} THEN None
        ELSE Some(CHOOSE p \in cand :
                     \A q \in cand \ {p} :
                        d(p) < d(q) \/ (d(p) = d(q) /\ PointLess(p, q)))

\* One iteration of shortest_path_dijkstra's loop on the locals st.
Day12Iter(hm, end, rev, st) ==
    LET cell == Vec2D_get(st.tentative_distances, st.current.row, st.current.col)
    IN  IF cell = None \/ unwrap(cell) = None
        THEN [st EXCEPT !.pc = "panic"]
        ELSE LET td == Day12Relax(get_neighbors(hm, rev, st.current), st.unvisited,
                                  unwrap(unwrap(cell)), st.tentative_distances)
                 unv == st.unvisited \ {st.current}
                 next == Day12Next(td, unv)
             IN  IF end # None /\ st.current = unwrap(end)
                 THEN [st EXCEPT !.unvisited = unv, !.tentative_distances = td,
                                 !.pc = "returned",
                                 !.dist = unwrap(Vec2D_get(td, unwrap(end).row,
                                                           unwrap(end).col))]
                 ELSE IF next = None
                 THEN [st EXCEPT !.unvisited = unv, !.tentative_distances = td,
                                 !.pc = "returned", !.dist = None]
                 ELSE [st EXCEPT !.unvisited = unv, !.tentative_distances = td,
                                 !.current = unwrap(next)]

RECURSIVE Day12Loop(_, _, _, _)
Day12Loop(hm, end, rev, st) ==
    IF st.pc # "loop" THEN st ELSE Day12Loop(hm, end, rev, Day12Iter(hm, end, rev, st))

\* HeightMap::shortest_path_dijkstra: its locals when it returns (pc
\* "returned", with dist and tentative_distances) or panics (pc "panic").
shortest_path_dijkstra(hm, from, end, rev) ==
    Day12Loop(hm, end, rev,
        [unvisited |-> AllPoints(hm.map),
         tentative_distances |->
             Vec2D_set(Vec2D_new(hm.map.rows, hm.map.cols, None),
                       from.row, from.col, Some(0)),
         current |-> from,
         pc |-> "loop",
         dist |-> None])

\* HeightMap::sea_level_points: the cells of elevation 1, row by row.
sea_level_points(hm) ==
    LET AtSeaLevel(p) == unwrap(Vec2D_get(hm.map, p.row, p.col)) = 1
    IN  SelectSeq(RowMajor(hm.map), AtSeaLevel)

SeaLevelSet(hm) == {sea_level_points(hm)[i] : i \in DOMAIN sea_level_points(hm)}

\* filter_map(..).min() over a collection of Option<i32>.
MinOfSome(S) ==
    IF S \subseteq {None} THEN None ELSE Some(Least({unwrap(o) : o \in S \ {None}}))

\* shortest_path_from_sea_smart, first statement: the goal-less search from
\* end over movable_neighbors_rev.
SmartSearch ==
    /\ height_map # Err
    /\ smart_pc = "search"
    /\ \E r \in {shortest_path_dijkstra(unwrap(height_map), unwrap(height_map).end,
                                        None, TRUE)} :
          IF r.pc = "panic"
          THEN /\ smart_pc' = "panic"
               /\ UNCHANGED shortest_from_end
          ELSE /\ smart_pc' = "min"
               /\ shortest_from_end' = r.tentative_distances
    /\ UNCHANGED << inputs, dvars, avars, gvars, workers, input, height_map, smart_result,
                    rayon_dists, rayon_pc, rayon_result >>

\* shortest_path_from_sea_smart, second statement: the minimum of the
\* entries of the sea-level points.
SmartMin ==
    /\ height_map # Err
    /\ smart_pc = "min"
    /\ smart_result' =
          MinOfSome({unwrap(Vec2D_get(shortest_from_end, p.row, p.col)) :
                        p \in SeaLevelSet(unwrap(height_map))})
    /\ smart_pc' = "returned"
    /\ UNCHANGED << inputs, dvars, avars, gvars, workers, input, height_map, shortest_from_end,
                    rayon_dists, rayon_pc, rayon_result >>

\* The locals of shortest_path_dijkstra(from, end, ..) before its loop.
Day12Locals(hm, from) ==
    [unvisited |-> AllPoints(hm.map),
     tentative_distances |->
         Vec2D_set(Vec2D_new(hm.map.rows, hm.map.cols, None),
                   from.row, from.col, Some(0)),
     current |-> from,
     pc |-> "loop",
     dist |-> None]

\* WorkerIter with one unvisited set for all the searches: what the search
\* of p leaves in it, the others find.
WorkerIterShared(p) ==
    /\ height_map # Err
    /\ p \in DOMAIN workers
    /\ workers[p].pc = "loop"
    /\ \E st \in {Day12Iter(unwrap(height_map), Some(unwrap(height_map).end),
                            FALSE, workers[p])} :
          workers' = [q \in DOMAIN workers |->
                         IF q = p THEN st
                         ELSE [workers[q] EXCEPT !.unvisited = st.unvisited]]
    /\ UNCHANGED << inputs, dvars, avars, gvars, input, height_map, shortest_from_end,
                    smart_pc, smart_result, rayon_dists, rayon_pc, rayon_result >>

\* One iteration of the loop of the search that started at p for end over
\* movable_neighbors: the search of shortest_path_from_start, and the search
\* a worker of shortest_path_from_sea_rayon's par_iter runs for its point.
WorkerIter(p) ==
    /\ height_map # Err
    /\ p \in DOMAIN workers
    /\ workers[p].pc = "loop"
    /\ workers' = [workers EXCEPT
                      ![p] = Day12Iter(unwrap(height_map), Some(unwrap(height_map).end),
                                       FALSE, @)]
    /\ UNCHANGED << inputs, dvars, avars, gvars, input, height_map, shortest_from_end,
                    smart_pc, smart_result, rayon_dists, rayon_pc, rayon_result >>

\* shortest_path_from_sea_rayon run by the workers of par_iter, one search
\* each: min() once every search has ended.
WorkersJoin ==
    /\ height_map # Err
    /\ rayon_pc = "par"
    /\ \A p \in DOMAIN workers : workers[p].pc # "loop"
    /\ IF \E p \in DOMAIN workers : workers[p].pc = "panic"
       THEN /\ rayon_pc' = "panic"
            /\ UNCHANGED rayon_result
       ELSE /\ rayon_pc' = "returned"
            /\ rayon_result' = MinOfSome({workers[p].dist : p \in DOMAIN workers})
    /\ UNCHANGED << inputs, dvars, avars, gvars, workers, input, height_map,
                    shortest_from_end, smart_pc, smart_result, rayon_dists >>

\* The caller's call of shortest_path_from_sea_rayon on the same height map,
\* made once shortest_path_from_sea_smart has returned or panicked.
CallRayon ==
    /\ height_map # Err
    /\ smart_pc \in {"returned", "panic"}
    /\ rayon_pc = "idle"
    /\ rayon_pc' = "search"
    /\ UNCHANGED << inputs, dvars, avars, gvars, workers, input, height_map, shortest_from_end,
                    smart_pc, smart_result, rayon_dists, rayon_result >>

\* shortest_path_from_sea_rayon: the closure of one sea-level point, run by
\* a worker of par_iter; the points are taken in any order.
RayonSearch(p) ==
    /\ height_map # Err
    /\ rayon_pc = "search"
    /\ p \in SeaLevelSet(unwrap(height_map)) \ DOMAIN rayon_dists
    /\ \E r \in {shortest_path_dijkstra(unwrap(height_map), p,
                                        Some(unwrap(height_map).end), FALSE)} :
          IF r.pc = "panic"
          THEN /\ rayon_pc' = "panic"
               /\ UNCHANGED rayon_dists
          ELSE /\ rayon_dists' = Insert(rayon_dists, p, r.dist)
               /\ UNCHANGED rayon_pc
    /\ UNCHANGED << inputs, dvars, avars, gvars, workers, input, height_map, shortest_from_end,
                    smart_pc, smart_result, rayon_result >>

\* shortest_path_from_sea_rayon: min() once every closure has run.
RayonMin ==
    /\ height_map # Err
    /\ rayon_pc = "search"
    /\ DOMAIN rayon_dists = SeaLevelSet(unwrap(height_map))
    /\ rayon_result' = MinOfSome({rayon_dists[p] : p \in DOMAIN rayon_dists})
    /\ rayon_pc' = "returned"
    /\ UNCHANGED << inputs, dvars, avars, gvars, workers, input, height_map, shortest_from_end,
                    smart_pc, smart_result, rayon_dists >>

\* ---------------------------------------------------------------- inputs
\* day12 is not run.
NoDay12 ==
    /\ workers = << >>
    /\ input = << >>
    /\ height_map = Err
    /\ shortest_from_end = Vec2D_new(0, 0, None)
    /\ smart_pc = "idle"
    /\ smart_result = None
    /\ rayon_dists = << >>
    /\ rayon_pc = "idle"
    /\ rayon_result = None

Edges == {e \in Nodes \X Nodes : e[1] # e[2]}
EdgeSets == {E \in SUBSET Edges : Cardinality(E) <= MaxEdges}
Graphs == UNION {[E -> Costs] : E \in EdgeSets}

\* dijkstra asks of a vertex only Eq and Hash, so it cannot tell one naming of
\* the vertices from another: its start is vertex 1 without loss.  It calls the
\* callbacks on `current` alone, so an edge leaving a vertex it cannot reach is
\* never seen: the graphs are those whose every edge leaves a reachable vertex.
Sources == {1}
SearchGraphs(s) == {g \in Graphs : \A e \in DOMAIN g : e[1] \in Reachable(g, FALSE, s)}
Goals == {None} \cup {Some(n) : n \in Nodes}

\* a_start is not called.
NoAStar ==
    /\ heuristic = [n \in Nodes |-> 0]
    /\ open_set = {}
    /\ came_from = << >>
    /\ g_score = << >>
    /\ f_score = << >>
    /\ a_current = None
    /\ a_pc = "idle"
    /\ a_result = None

\* One call of dijkstra over all the vertices, with or without a goal.
InitDijkstra ==
    /\ NoAStar
    /\ NoDay12
    /\ NoVec2D
    /\ \E s \in Sources :
          /\ graph \in SearchGraphs(s)
          /\ start = [c \in Calls |-> s]
          /\ current = [c \in Calls |-> s]
          /\ tentative_distances = [c \in Calls |-> (s :> 0)]
    /\ all_nodes = Nodes
    /\ goal \in {[c \in Calls |-> gl] : gl \in Goals}
    /\ reversed = [c \in Calls |-> FALSE]
    /\ unvisited = [c \in Calls |-> Nodes]
    /\ pc = [c \in Calls |-> IF c = 1 THEN "loop" ELSE "idle"]
    /\ distance_to_end = [c \in Calls |-> None]
    /\ iterations = [c \in Calls |-> 0]

NextDijkstra == \E c \in Calls : DijkstraIter(c)

SpecDijkstra == InitDijkstra /\ [][NextDijkstra]_vars

\* The caller's second call of dijkstra, made once the first one returned.
SecondCall ==
    /\ pc[1] = "returned"
    /\ pc[2] = "idle"
    /\ pc' = [pc EXCEPT ![2] = "loop"]
    /\ UNCHANGED << inputs, avars, hvars, gvars, unvisited, tentative_distances,
                    current, distance_to_end, iterations >>

NextTwice == NextDijkstra \/ SecondCall

SpecTwice == InitDijkstra /\ [][NextTwice]_vars

\* A graph of uniform edge cost 1 searched twice: forward from a to b, then
\* from b without goal, over the reversed edges.
InitReversed ==
    /\ NoAStar
    /\ NoDay12
    /\ NoVec2D
    /\ graph \in UNION {[E -> {1}] : E \in EdgeSets}
    /\ all_nodes = Nodes
    /\ \E a \in Nodes, b \in Nodes :
          /\ start = << a, b >>
          /\ goal = << Some(b), None >>
          /\ current = << a, b >>
          /\ tentative_distances = << (a :> 0), (b :> 0) >>
    /\ reversed = << FALSE, TRUE >>
    /\ unvisited = [c \in Calls |-> Nodes]
    /\ pc = << "loop", "idle" >>
    /\ distance_to_end = [c \in Calls |-> None]
    /\ iterations = [c \in Calls |-> 0]

SpecReversed == InitReversed /\ [][NextTwice]_vars

\* a_start's graphs have up to MaxEdgesAStar edges, each leaving a vertex that
\* start reaches.  With costs of 0 and more the start node is in the open set
\* in the first iteration alone, where no other node is: its place in the
\* order of the nodes decides nothing, and it is vertex 1.
AStarGraphs(s) ==
    {g \in UNION {[E -> Costs] : E \in {F \in SUBSET Edges : Cardinality(F) <= MaxEdgesAStar}} :
        \A e \in DOMAIN g : e[1] \in Reachable(g, FALSE, s)}

\* h never overestimates the cost that remains from a node to t.
Admissible(g, h, t) ==
    \A n \in Nodes :
        t \in Reachable(g, FALSE, n) => h[n] <= Least(SimplePathCosts(g, FALSE, n, t))

\* One call of a_start with an admissible heuristic, followed by one call of
\* dijkstra with the same start and goal.
InitAStar ==
    /\ NoDay12
    /\ NoVec2D
    /\ \E s \in Sources, t \in Nodes :
          /\ graph \in AStarGraphs(s)
          /\ heuristic \in {h \in [Nodes -> 0..MaxHeuristic] : Admissible(graph, h, t)}
          /\ start = [c \in Calls |-> s]
          /\ goal = [c \in Calls |-> Some(t)]
          /\ current = [c \in Calls |-> s]
          /\ tentative_distances = [c \in Calls |-> (s :> 0)]
          /\ open_set = {s}
          /\ g_score = (s :> 0)
          /\ f_score = (s :> heuristic[s])
    /\ all_nodes = Nodes
    /\ reversed = [c \in Calls |-> FALSE]
    /\ unvisited = [c \in Calls |-> Nodes]
    /\ pc = [c \in Calls |-> "idle"]
    /\ distance_to_end = [c \in Calls |-> None]
    /\ iterations = [c \in Calls |-> 0]
    /\ came_from = << >>
    /\ a_current = None
    /\ a_pc = "loop"
    /\ a_result = None

NextAStar == AStarIter \/ CallDijkstra \/ NextDijkstra

SpecAStar == InitAStar /\ [][NextAStar]_vars

\* One call of a_start with any heuristic, admissible or not, over the graphs
\* of up to MaxEdgesHeur edges.
InitAStarAny ==
    /\ NoDay12
    /\ NoVec2D
    /\ \E s \in Sources, t \in Nodes :
          /\ graph \in {g \in AStarGraphs(s) : Cardinality(DOMAIN g) <= MaxEdgesHeur}
          /\ heuristic \in [Nodes -> 0..MaxHeuristic]
          /\ start = [c \in Calls |-> s]
          /\ goal = [c \in Calls |-> Some(t)]
          /\ current = [c \in Calls |-> s]
          /\ tentative_distances = [c \in Calls |-> (s :> 0)]
          /\ open_set = {s}
          /\ g_score = (s :> 0)
          /\ f_score = (s :> heuristic[s])
    /\ all_nodes = Nodes
    /\ reversed = [c \in Calls |-> FALSE]
    /\ unvisited = [c \in Calls |-> Nodes]
    /\ pc = [c \in Calls |-> "idle"]
    /\ distance_to_end = [c \in Calls |-> None]
    /\ iterations = [c \in Calls |-> 0]
    /\ came_from = << >>
    /\ a_current = None
    /\ a_pc = "loop"
    /\ a_result = None

SpecAStarAny == InitAStarAny /\ [][AStarIter]_vars

\* The graphs over the first MaxNodesLive nodes, of up to MaxEdgesLive edges.
LiveGraphs(s) ==
    {g \in UNION {[E -> Costs] :
                     E \in {F \in SUBSET {e \in Edges : e[1] <= MaxNodesLive /\ e[2] <= MaxNodesLive} :
                               Cardinality(F) <= MaxEdgesLive}} :
        \A e \in DOMAIN g : e[1] \in Reachable(g, FALSE, s)}

\* One call of a_start with any heuristic, admissible or not, on a graph of
\* LiveGraphs.
InitAStarLive ==
    /\ NoDay12
    /\ NoVec2D
    /\ \E s \in Sources, t \in 1..MaxNodesLive :
          /\ graph \in LiveGraphs(s)
          /\ heuristic \in {h \in [Nodes -> 0..MaxHeuristic] :
                               \A n \in Nodes : n > MaxNodesLive => h[n] = 0}
          /\ start = [c \in Calls |-> s]
          /\ goal = [c \in Calls |-> Some(t)]
          /\ current = [c \in Calls |-> s]
          /\ tentative_distances = [c \in Calls |-> (s :> 0)]
          /\ open_set = {s}
          /\ g_score = (s :> 0)
          /\ f_score = (s :> heuristic[s])
    /\ all_nodes = Nodes
    /\ reversed = [c \in Calls |-> FALSE]
    /\ unvisited = [c \in Calls |-> Nodes]
    /\ pc = [c \in Calls |-> "idle"]
    /\ distance_to_end = [c \in Calls |-> None]
    /\ iterations = [c \in Calls |-> 0]
    /\ came_from = << >>
    /\ a_current = None
    /\ a_pc = "loop"
    /\ a_result = None

\* a_start runs on its caller's thread until it returns: an iteration that is
\* possible is taken.
SpecAStarLive == InitAStarLive /\ [][AStarIter]_vars /\ WF_vars(AStarIter)

\* The characters of a puzzle text.
CharSet == {"S", "E"} \cup {Alphabet[i] : i \in DOMAIN Alphabet}

\* The texts of n characters on one line, with one S and one E.
Flats(n) ==
    {f \in [1..n -> CharSet] :
        /\ Cardinality({i \in 1..n : f[i] = "S"}) = 1
        /\ Cardinality({i \in 1..n : f[i] = "E"}) = 1}

RECURSIVE SumSeq(_)
SumSeq(sh) == IF sh = << >> THEN 0 ELSE Head(sh) + SumSeq(Tail(sh))

\* The ways to break n characters into at most MaxLines lines: the lengths
\* of the lines, which may differ and may be 0.
Shapes(n) == {sh \in UNION {[1..k -> 0..n] : k \in 1..MaxLines} : SumSeq(sh) = n}

RECURSIVE Split(_, _)
\* The lines of f, of the lengths sh lists.
Split(f, sh) ==
    IF sh = << >> THEN << >>
    ELSE << SubSeq(f, 1, Head(sh)) >> \o Split(SubSeq(f, Head(sh) + 1, Len(f)), Tail(sh))

\* dijkstra is not called.
NoDijkstra ==
    /\ graph = << >>
    /\ all_nodes = {}
    /\ start = [c \in Calls |-> 1]
    /\ goal = [c \in Calls |-> None]
    /\ reversed = [c \in Calls |-> FALSE]
    /\ unvisited = [c \in Calls |-> {}]
    /\ tentative_distances = [c \in Calls |-> << >>]
    /\ current = [c \in Calls |-> 1]
    /\ pc = [c \in Calls |-> "idle"]
    /\ distance_to_end = [c \in Calls |-> None]
    /\ iterations = [c \in Calls |-> 0]

\* A puzzle text (at most MaxChars characters on at most MaxLines lines, one
\* of them S and one E) is parsed; on the height map it gives,
\* shortest_path_from_sea_smart is called and then shortest_path_from_sea_rayon.
InitDay12 ==
    /\ NoDijkstra
    /\ NoAStar
    /\ NoVec2D
    /\ workers = << >>
    /\ \E n \in 2..MaxChars :
          \E f \in Flats(n), sh \in Shapes(n) : input = Split(f, sh)
    /\ height_map = from_str(Alphabet, input)
    /\ shortest_from_end = Vec2D_new(0, 0, None)
    /\ smart_pc = "search"
    /\ smart_result = None
    /\ rayon_dists = << >>
    /\ rayon_pc = "idle"
    /\ rayon_result = None

\* The cells of the parsed height map.
Cells == IF height_map = Err THEN {} ELSE AllPoints(unwrap(height_map).map)

NextDay12 ==
    \/ SmartSearch
    \/ SmartMin
    \/ CallRayon
    \/ \E p \in Cells : RayonSearch(p)
    \/ RayonMin

SpecDay12 == InitDay12 /\ [][NextDay12]_vars

\* Any input of dijkstra: costs of either sign, any all_nodes (start, the
\* goal and neighbours may be outside it), with or without a goal.
AnyGraphs(s) ==
    {g \in UNION {[E -> (0 - MaxNegCost)..MaxCost] :
                     E \in {F \in SUBSET Edges : Cardinality(F) <= MaxEdgesAny}} :
        \A e \in DOMAIN g : e[1] \in Reachable(g, FALSE, s)}

InitAny ==
    /\ NoAStar
    /\ NoDay12
    /\ NoVec2D
    /\ \E s \in Sources :
          /\ graph \in AnyGraphs(s)
          /\ start = [c \in Calls |-> s]
          /\ current = [c \in Calls |-> s]
          /\ tentative_distances = [c \in Calls |-> (s :> 0)]
    /\ all_nodes \in SUBSET Nodes
    /\ goal \in {[c \in Calls |-> gl] : gl \in Goals}
    /\ reversed = [c \in Calls |-> FALSE]
    /\ unvisited = [c \in Calls |-> all_nodes]
    /\ pc = [c \in Calls |-> IF c = 1 THEN "loop" ELSE "idle"]
    /\ distance_to_end = [c \in Calls |-> None]
    /\ iterations = [c \in Calls |-> 0]

SpecAny == InitAny /\ [][NextDijkstra]_vars

\* The graphs over the first MaxNodesLive nodes, of up to MaxEdgesAnyLive
\* edges, with costs of either sign.
AnyLiveGraphs(s) ==
    {g \in UNION {[E -> (0 - MaxNegCost)..MaxCost] :
                     E \in {F \in SUBSET {e \in Edges : e[1] <= MaxNodesLive /\ e[2] <= MaxNodesLive} :
                               Cardinality(F) <= MaxEdgesAnyLive}} :
        \A e \in DOMAIN g : e[1] \in Reachable(g, FALSE, s)}

\* One call of dijkstra on a graph of AnyLiveGraphs, with any all_nodes and
\* with or without a goal.
InitAnyLive ==
    /\ NoAStar
    /\ NoDay12
    /\ NoVec2D
    /\ \E s \in Sources :
          /\ graph \in AnyLiveGraphs(s)
          /\ start = [c \in Calls |-> s]
          /\ current = [c \in Calls |-> s]
          /\ tentative_distances = [c \in Calls |-> (s :> 0)]
    /\ all_nodes \in SUBSET Nodes
    /\ goal \in {[c \in Calls |-> gl] : gl \in Goals}
    /\ reversed = [c \in Calls |-> FALSE]
    /\ unvisited = [c \in Calls |-> all_nodes]
    /\ pc = [c \in Calls |-> IF c = 1 THEN "loop" ELSE "idle"]
    /\ distance_to_end = [c \in Calls |-> None]
    /\ iterations = [c \in Calls |-> 0]

\* dijkstra runs on its caller's thread until it returns: an iteration that
\* is possible is taken.
SpecAnyLive == InitAnyLive /\ [][NextDijkstra]_vars /\ WF_vars(NextDijkstra)

\* TEST_VECTOR of day12's tests.
TEST_VECTOR ==
    << << "S", "a", "b", "q", "p", "o", "n", "m" >>,
       << "a", "b", "c", "r", "y", "x", "x", "l" >>,
       << "a", "c", "c", "s", "z", "E", "x", "k" >>,
       << "a", "c", "c", "t", "u", "v", "w", "j" >>,
       << "a", "b", "d", "e", "f", "g", "h", "i" >> >>

\* The test part2's call of shortest_path_from_sea_rayon, the tests being
\* run one after the other: part1's search has returned or panicked.
RunPart2 ==
    /\ height_map # Err
    /\ workers # << >>
    /\ \A p \in DOMAIN workers : workers[p].pc # "loop"
    /\ smart_pc = "idle"
    /\ rayon_pc = "idle"
    /\ rayon_pc' = "search"
    /\ UNCHANGED << inputs, dvars, avars, gvars, workers, input, height_map,
                    shortest_from_end, smart_pc, smart_result, rayon_dists,
                    rayon_result >>

\* The tests part1 and part2: TEST_VECTOR is parsed over the whole alphabet;
\* part1 calls shortest_path_from_start, then part2 calls
\* shortest_path_from_sea_rayon.
InitTests ==
    /\ NoDijkstra
    /\ NoAStar
    /\ NoVec2D
    /\ input = TEST_VECTOR
    /\ height_map = from_str(Lowercase, input)
    /\ workers = [p \in {unwrap(height_map).start} |-> Day12Locals(unwrap(height_map), p)]
    /\ shortest_from_end = Vec2D_new(0, 0, None)
    /\ smart_pc = "idle"
    /\ smart_result = None
    /\ rayon_dists = << >>
    /\ rayon_pc = "idle"
    /\ rayon_result = None

NextTests ==
    \/ \E p \in Cells : WorkerIter(p)
    \/ RunPart2
    \/ \E p \in Cells : RayonSearch(p)
    \/ RayonMin

SpecTests == InitTests /\ [][NextTests]_vars

\* The values of the cells and the numbers of rows and of columns.
Values == 0..MaxValue
Dims == 0..MaxDim

\* Two grids built by Vec2D::new; at most MaxCalls calls of set and op
\* follow on the first, with rows and columns inside and outside of it.
InitVec2D ==
    /\ NoDijkstra
    /\ NoAStar
    /\ NoDay12
    /\ \E rows \in Dims, cols \in Dims, v \in Values : grid = Vec2D_new(rows, cols, v)
    /\ \E rows \in Dims, cols \in Dims, v \in Values : other = Vec2D_new(rows, cols, v)
    /\ vec_call = [fn |-> "new", n |-> 0, row |-> 0, col |-> 0, value |-> 0,
                   op |-> "", before |-> grid, ret |-> None]

NextVec2D ==
    \/ \E row \in Dims, col \in Dims, value \in Values : VecSet(row, col, value)
    \/ \E f \in Ops : VecOp(f)

SpecVec2D == InitVec2D /\ [][NextVec2D]_vars

\* A puzzle text is parsed; on the height map it gives,
\* shortest_path_from_sea_rayon is called and par_iter starts one search for
\* each sea-level point; the searches run interleaved.
InitWorkers ==
    /\ NoDijkstra
    /\ NoAStar
    /\ NoVec2D
    /\ \E n \in 2..MaxChars :
          \E f \in Flats(n), sh \in Shapes(n) : input = Split(f, sh)
    /\ height_map = from_str(Alphabet, input)
    /\ workers = [p \in SeaLevelSet(unwrap(height_map)) |->
                     Day12Locals(unwrap(height_map), p)]
    /\ shortest_from_end = Vec2D_new(0, 0, None)
    /\ smart_pc = "idle"
    /\ smart_result = None
    /\ rayon_dists = << >>
    /\ rayon_pc = "par"
    /\ rayon_result = None

NextWorkers ==
    \/ \E p \in Cells : WorkerIter(p)
    \/ WorkersJoin

SpecWorkers == InitWorkers /\ [][NextWorkers]_vars

\* The graph the callbacks show to the generic dijkstra when they are built
\* on a get_neighbors closure of day12: the generic dijkstra knows a cell by
\* its place in the row-major list of the cells, and has an edge of cost 1
\* from each cell to each cell the closure lists for it.
GraphOf(hm, rev) ==
    LET cells == RowMajor(hm.map)
    IN [e \in {<< i, j >> \in (DOMAIN cells) \X (DOMAIN cells) :
                  \E k \in DOMAIN get_neighbors(hm, rev, cells[i]) :
                     get_neighbors(hm, rev, cells[i])[k] = cells[j]} |-> 1]

\* A puzzle text is parsed to a height map of at most NumNodes cells; for a
\* start cell, an optional end cell and one of the two get_neighbors
\* closures, the generic dijkstra is given the cells as all_nodes and the
\* closure as its neighbours, at the constant cost 1.
InitRefine ==
    /\ NoAStar
    /\ NoVec2D
    /\ \E n \in 2..MaxChars :
          \E f \in Flats(n), sh \in Shapes(n) : input = Split(f, sh)
    /\ height_map = from_str(Alphabet, input)
    /\ height_map # Err
    /\ LET hm == unwrap(height_map)
           size == hm.map.rows * hm.map.cols
       IN /\ size \in 1..NumNodes
          /\ all_nodes = 1..size
          /\ \E rev \in BOOLEAN : graph = GraphOf(hm, rev)
          /\ \E from \in 1..size, gl \in {None} \cup {Some(i) : i \in 1..size} :
                /\ start = [c \in Calls |-> from]
                /\ goal = [c \in Calls |-> gl]
                /\ current = [c \in Calls |-> from]
                /\ tentative_distances = [c \in Calls |-> (from :> 0)]
          /\ unvisited = [c \in Calls |-> 1..size]
    /\ reversed = [c \in Calls |-> FALSE]
    /\ pc = [c \in Calls |-> "idle"]
    /\ distance_to_end = [c \in Calls |-> None]
    /\ iterations = [c \in Calls |-> 0]
    /\ workers = << >>
    /\ shortest_from_end = Vec2D_new(0, 0, None)
    /\ smart_pc = "idle"
    /\ smart_result = None
    /\ rayon_dists = << >>
    /\ rayon_pc = "idle"
    /\ rayon_result = None

\* The caller runs HeightMap::shortest_path_dijkstra from the start cell to
\* the optional end cell with the closure the graph was built on, keeps the
\* locals it returned with, and then calls the generic dijkstra.
RefineCall ==
    /\ height_map # Err
    /\ workers = << >>
    /\ pc[1] = "idle"
    /\ LET hm == unwrap(height_map)
           cells == RowMajor(hm.map)
           from == cells[start[1]]
           end == IF goal[1] = None THEN None ELSE Some(cells[unwrap(goal[1])])
       IN \E rev \in BOOLEAN :
             /\ graph = GraphOf(hm, rev)
             /\ workers' = (from :> shortest_path_dijkstra(hm, from, end, rev))
    /\ pc' = [pc EXCEPT ![1] = "loop"]
    /\ UNCHANGED << inputs, avars, gvars, unvisited, tentative_distances, current,
                    distance_to_end, iterations, input, height_map, shortest_from_end,
                    smart_pc, smart_result, rayon_dists, rayon_pc, rayon_result >>

NextRefine == RefineCall \/ NextDijkstra

SpecRefine == InitRefine /\ [][NextRefine]_vars

\* ---------------------------------------------------------------- claims
\* The least cost of a path from s to t, for t reachable from s.
ShortestDistance(g, rv, s, t) == Least(SimplePathCosts(g, rv, s, t))

\* The map holds exactly the vertices reachable from s, each with its least cost.
IsShortestMap(td, g, rv, s) ==
    /\ DOMAIN td = Reachable(g, rv, s)
    /\ \A v \in DOMAIN td : td[v] = ShortestDistance(g, rv, s, v)

\* C1: with goal = None, the returned distances map has exactly the vertices
\* reachable from start as keys, each with the least total cost over all the
\* simple paths from start to it.
C1_DistancesAreShortest ==
    (pc[1] = "returned" /\ goal[1] = None) =>
        IsShortestMap(tentative_distances[1], graph, FALSE, start[1])

\* C1's case: a search without goal has returned a map in which some vertex is
\* cheaper over two edges than over the edge that reaches it from start.
C1_Witness ==
    /\ pc[1] = "returned" /\ goal[1] = None
    /\ \E v \in DOMAIN tentative_distances[1] :
          /\ << start[1], v >> \in DOMAIN graph
          /\ tentative_distances[1][v] < graph[<< start[1], v >>]
    /\ DOMAIN tentative_distances[1] # Nodes

C4_UnreachableGoal ==
    (goal[1] # None /\ pc[1] \in {"panic", "returned"}) =>
        (goal[1][1] \notin Reachable(graph, FALSE, start[1]) =>
            /\ pc[1] # "panic"
            /\ distance_to_end[1] = None
            /\ IsShortestMap(tentative_distances[1], graph, FALSE, start[1]))

\* C4's case: the search returned without reaching its goal, after visiting
\* vertices beyond start.
C4_Witness ==
    /\ pc[1] = "returned" /\ goal[1] # None
    /\ goal[1][1] \notin Reachable(graph, FALSE, start[1])
    /\ distance_to_end[1] = None
    /\ Cardinality(DOMAIN tentative_distances[1]) >= 3

\* C9: with goal = None, two runs on identical inputs return identical
\* distances maps, however each of them broke its ties.
C9_SameMapWithoutGoal ==
    (pc[1] = "returned" /\ pc[2] = "returned" /\ goal[1] = None) =>
        tentative_distances[1] = tentative_distances[2]

\* C9's case: two goal-less runs returned after visiting the vertices in
\* different orders (they ended at different vertices).
C9_Witness ==
    /\ pc[1] = "returned" /\ pc[2] = "returned" /\ goal[1] = None
    /\ current[1] # current[2]

\* C10 as stated: with goal = Some(g), two runs on identical inputs return
\* identical distances maps.
C10_SameMapWithGoal ==
    (pc[1] = "returned" /\ pc[2] = "returned" /\ goal[1] # None) =>
        tentative_distances[1] = tentative_distances[2]

\* The entries of map td below distance d; all of them when d is None.
EntriesBelow(td, d) ==
    {<< v, td[v] >> : v \in {w \in DOMAIN td : d = None \/ td[w] < d[1]}}

\* C10 amended: with goal = Some(g), two runs on identical inputs return the
\* same distance_to_end and maps with the same entries below distance_to_end
\* (identical maps when the goal was not reached); the goal's entry is the
\* same too.  Entries at or above distance_to_end depend on the ties.
C10_SameMapBelowGoal ==
    (pc[1] = "returned" /\ pc[2] = "returned" /\ goal[1] # None) =>
        /\ distance_to_end[1] = distance_to_end[2]
        /\ EntriesBelow(tentative_distances[1], distance_to_end[1])
             = EntriesBelow(tentative_distances[2], distance_to_end[2])
        /\ distance_to_end[1] # None =>
              /\ tentative_distances[1][goal[1][1]] = distance_to_end[1][1]
              /\ tentative_distances[2][goal[1][1]] = distance_to_end[1][1]

\* C10's case: two runs reached the goal at a positive distance and returned
\* different maps, which share their entries below the goal's distance.
C10_Witness ==
    /\ pc[1] = "returned" /\ pc[2] = "returned" /\ goal[1] # None
    /\ distance_to_end[1] # None
    /\ tentative_distances[1] # tentative_distances[2]
    /\ distance_to_end[1][1] > 0
    /\ EntriesBelow(tentative_distances[1], distance_to_end[1]) # {}

\* C7: on a graph of uniform edge cost 1, the distance_to_end of the forward
\* search from a to b is the entry of a in the map of the goal-less search
\* from b over the reversed edges, and None when a has no entry there.
C7_ForwardEqualsBackward ==
    (pc[1] = "returned" /\ pc[2] = "returned" /\ reversed[2]) =>
        distance_to_end[1] =
            IF start[1] \in DOMAIN tentative_distances[2]
            THEN Some(tentative_distances[2][start[1]])
            ELSE None

\* C7's case: both searches returned, b is two edges or more away from a, and
\* a cannot be reached from b along the edges.
C7_Witness ==
    /\ pc[1] = "returned" /\ pc[2] = "returned" /\ reversed[2]
    /\ distance_to_end[1] # None
    /\ distance_to_end[1][1] >= 2
    /\ start[1] \notin Reachable(graph, FALSE, start[2])

\* The elements of a Vec.
Elements(v) == {v[i] : i \in DOMAIN v}

\* C3: with an admissible heuristic and a goal reachable from start, a_start
\* returns Some(path), path followed by goal is a walk of the graph, and its
\* total edge cost is the distance_to_end that dijkstra reports for the same
\* start and goal.
C3_AStarCostIsDijkstraDistance ==
    (a_pc = "returned" /\ pc[1] = "returned"
        /\ goal[1][1] \in Reachable(graph, FALSE, start[1])) =>
        /\ a_result # None
        /\ distance_to_end[1] # None
        /\ IsWalk(graph, FALSE, a_result[1] \o goal[1])
        /\ WalkCost(graph, FALSE, a_result[1] \o goal[1]) = distance_to_end[1][1]

\* C3's case: both searches returned, the heuristic is not zero at start,
\* the goal is reached over two edges or more, and the graph has simple paths
\* of different costs from start to the goal.
C3_Witness ==
    /\ a_pc = "returned" /\ pc[1] = "returned"
    /\ a_result # None /\ distance_to_end[1] # None
    /\ heuristic[start[1]] > 0
    /\ Len(a_result[1]) >= 2
    /\ Cardinality(SimplePathCosts(graph, FALSE, start[1], goal[1][1])) >= 2

RECURSIVE ScoreSum(_, _)
\* The sum over the nodes of S of their g-scores in map gs, a node without
\* g-score counting for more than any path costs.
ScoreSum(S, gs) ==
    IF S = {} THEN 0
    ELSE LET n == CHOOSE x \in S : TRUE
         IN (IF n \in DOMAIN gs THEN gs[n] ELSE NumNodes * MaxCost + 1)
            + ScoreSum(S \ {n}, gs)

\* What is left of a_start's search: the open nodes, and the g-scores that
\* can still be lowered.
AStarMeasure == Cardinality(open_set) + ScoreSum(Nodes, g_score)

\* The goal of a_start cannot be reached from its start.
GoalUnreachable == goal[1][1] \notin Reachable(graph, FALSE, start[1])

\* C5: with a goal that is not reachable from start, a_start neither panics
\* nor hangs in reconstruct_path; every iteration of its loop lowers
\* AStarMeasure, which is never negative, so the open set becomes empty in
\* the end, and a_start then returns; when it has returned the open set is
\* empty and the result is None.
C5_AStarUnreachableGoal ==
    /\ [](GoalUnreachable =>
            /\ a_pc \in {"loop", "returned"}
            /\ AStarMeasure >= 0
            /\ a_pc = "returned" => (a_result = None /\ open_set = {}))
    /\ [][(GoalUnreachable /\ a_pc = "loop") =>
            IF open_set = {} THEN a_pc' = "returned"
            ELSE AStarMeasure' < AStarMeasure]_vars

\* C5's case: a_start returned None after expanding three nodes or more.
C5_Witness ==
    /\ a_pc = "returned" /\ a_result = None
    /\ goal[1][1] \notin Reachable(graph, FALSE, start[1])
    /\ Cardinality(DOMAIN g_score) >= 3

\* C6 as stated: a path returned for start # goal does not contain start.
C6_PathWithoutStart ==
    (a_pc = "returned" /\ a_result # None /\ goal[1] # Some(start[1])) =>
        start[1] \notin Elements(a_result[1])

\* C6 amended: a path returned for start # goal begins with the start node
\* and does not contain the goal: reconstruction walks the predecessor links
\* from the goal, pushes each predecessor, the start node last, and leaves
\* the goal out of the returned sequence.
C6_PathWithoutGoal ==
    (a_pc = "returned" /\ a_result # None /\ goal[1] # Some(start[1])) =>
        /\ a_result[1] # << >>
        /\ Head(a_result[1]) = start[1]
        /\ goal[1][1] \notin Elements(a_result[1])
        /\ came_from[goal[1][1]] = a_result[1][Len(a_result[1])]

\* C6's case: a_start returned a path of two nodes or more to a goal other
\* than start.
C6_Witness ==
    /\ a_pc = "returned" /\ a_result # None /\ goal[1] # Some(start[1])
    /\ Len(a_result[1]) >= 2

\* movable_neighbors_rev lists q for p exactly when movable_neighbors lists
\* p for q.
IsEdgeReversal(hm) ==
    LET Listed(v) == {v[i] : i \in DOMAIN v}
    IN  \A p \in AllPoints(hm.map) :
           Listed(movable_neighbors_rev(hm, p))
               = {q \in AllPoints(hm.map) : p \in Listed(movable_neighbors(hm, q))}

\* Both part-2 functions have finished, by a return or by a panic.
Day12Done ==
    /\ smart_pc \in {"returned", "panic"}
    /\ rayon_pc \in {"returned", "panic"}

\* C8: on every height map, once both functions have finished,
\* shortest_path_from_sea_smart has returned the Option<i32> that
\* shortest_path_from_sea_rayon has returned, and movable_neighbors_rev is
\* the edge reversal of movable_neighbors.
C8_SmartEqualsRayon ==
    (height_map # Err /\ Day12Done) =>
        /\ smart_pc = "returned"
        /\ rayon_pc = "returned"
        /\ smart_result = rayon_result
        /\ IsEdgeReversal(unwrap(height_map))

\* What holds of C8: the two functions return the same value when end is a
\* cell of the grid; when it is not, the smart one panics and the rayon one
\* returns None; movable_neighbors_rev is the edge reversal on every height
\* map.
C8_SmartEqualsRayonInGrid ==
    (height_map # Err /\ Day12Done) =>
        /\ IF unwrap(height_map).end \in Cells
           THEN /\ smart_pc = "returned"
                /\ rayon_pc = "returned"
                /\ smart_result = rayon_result
           ELSE /\ smart_pc = "panic"
                /\ rayon_pc = "returned"
                /\ rayon_result = None
        /\ IsEdgeReversal(unwrap(height_map))

\* C8's case: both functions returned a distance of two steps or more on a
\* height map that has a one-way move.
C8_Witness ==
    /\ height_map # Err
    /\ Day12Done
    /\ smart_pc = "returned"
    /\ smart_result # None
    /\ unwrap(smart_result) >= 2
    /\ \E p \in Cells :
          \E i \in DOMAIN movable_neighbors(unwrap(height_map), p) :
             \A j \in DOMAIN movable_neighbors_rev(unwrap(height_map), p) :
                movable_neighbors_rev(unwrap(height_map), p)[j]
                    # movable_neighbors(unwrap(height_map), p)[i]

RECURSIVE PathCostsIn(_, _, _, _, _)
\* The costs of the simple paths from u to t whose vertices after u are
\* all in `allowed`, none of them in `seen`.
PathCostsIn(g, allowed, u, t, seen) ==
    IF u = t THEN {0}
    ELSE UNION {{g[<< u, v >>] + c : c \in PathCostsIn(g, allowed, v, t, seen \cup {v})} :
                   v \in {w \in allowed \ seen : << u, w >> \in DOMAIN g}}

\* C11: when start is not in all_nodes, its entry is there and stays 0; the
\* first iteration gives an entry to exactly the neighbours of start that are
\* in all_nodes, at the cost of their edge; and the search goes on from them:
\* without goal and with costs >= 0 the returned map holds exactly the
\* vertices reached from start through vertices of all_nodes, at their least
\* cost.
C11_StartOutsideAllNodes ==
    /\ [](start[1] \notin all_nodes =>
            /\ start[1] \in DOMAIN tentative_distances[1]
            /\ tentative_distances[1][start[1]] = 0
            /\ (pc[1] = "returned" /\ goal[1] = None /\ \A e \in DOMAIN graph : graph[e] >= 0) =>
                  /\ DOMAIN tentative_distances[1] =
                        {v \in Nodes : PathCostsIn(graph, all_nodes, start[1], v, {start[1]}) # {}}
                  /\ \A v \in DOMAIN tentative_distances[1] :
                        tentative_distances[1][v] =
                            Least(PathCostsIn(graph, all_nodes, start[1], v, {start[1]})))
    /\ [][(start[1] \notin all_nodes /\ pc[1] = "loop" /\ current[1] = start[1]) =>
            /\ DOMAIN tentative_distances'[1] =
                  {start[1]} \cup {v \in all_nodes : << start[1], v >> \in DOMAIN graph}
            /\ \A v \in all_nodes :
                  << start[1], v >> \in DOMAIN graph =>
                      tentative_distances'[1][v] = graph[<< start[1], v >>]]_vars

\* C11's case: start is outside all_nodes, a neighbour of start is outside
\* too, and the search returned a map that holds a vertex two edges away.
C11_Witness ==
    /\ start[1] \notin all_nodes
    /\ pc[1] = "returned"
    /\ goal[1] = None
    /\ \A e \in DOMAIN graph : graph[e] >= 0
    /\ \E v \in Nodes \ all_nodes : << start[1], v >> \in DOMAIN graph
    /\ \E v \in DOMAIN tentative_distances[1] :
          v # start[1] /\ << start[1], v >> \notin DOMAIN graph

\* C12: on every input the current vertex of an iteration has an entry in
\* tentative_distances, and so has the goal when it is returned: no call
\* panics.
C12_NeverPanics ==
    \A c \in Calls :
        /\ pc[c] # "panic"
        /\ pc[c] = "loop" => current[c] \in DOMAIN tentative_distances[c]
        /\ (pc[c] = "returned" /\ distance_to_end[c] # None) =>
              unwrap(goal[c]) \in DOMAIN tentative_distances[c]

\* C12's case: a search with a negative cost, start outside all_nodes and a
\* goal it cannot reach has returned.
C12_Witness ==
    /\ pc[1] = "returned"
    /\ start[1] \notin all_nodes
    /\ \E e \in DOMAIN graph : graph[e] < 0
    /\ goal[1] # None
    /\ distance_to_end[1] = None
    /\ Cardinality(DOMAIN tentative_distances[1]) >= 3

\* C13: on the test height map (S at the elevation of 'a', E at that of 'z')
\* shortest_path_from_start returns Some(31) and shortest_path_from_sea_rayon
\* returns Some(29); neither panics.
C13_TestVector ==
    /\ unwrap(height_map).start = Point(0, 0)
    /\ unwrap(height_map).end = Point(2, 5)
    /\ Vec2D_get(unwrap(height_map).map, 0, 0) = Some(1)
    /\ Vec2D_get(unwrap(height_map).map, 2, 5) = Some(26)
    /\ \A p \in DOMAIN workers :
          /\ workers[p].pc \in {"loop", "returned"}
          /\ workers[p].pc = "returned" => workers[p].dist = Some(31)
    /\ rayon_pc \in {"idle", "search", "returned"}
    /\ rayon_pc = "returned" => rayon_result = Some(29)

\* C13's case: both tests have their result.
C13_Witness ==
    /\ height_map = from_str(Lowercase, TEST_VECTOR)
    /\ workers[Point(0, 0)].pc = "returned"
    /\ rayon_pc = "returned"
    /\ Cardinality(DOMAIN rayon_dists) = 6

\* C14: op on two grids of equal rows and cols returns Ok(()), leaves in
\* every cell of self the combination of its old value with other's, and
\* leaves the dimensions and other as they were.
C14_OpCombinesCells ==
    /\ []((vec_call.fn = "op" /\ vec_call.before.rows = other.rows
                              /\ vec_call.before.cols = other.cols) =>
            /\ vec_call.ret = Ok(Unit)
            /\ grid.rows = vec_call.before.rows
            /\ grid.cols = vec_call.before.cols
            /\ \A r \in Dims, c \in Dims :
                  Vec2D_get(grid, r, c) =
                      IF r < grid.rows /\ c < grid.cols
                      THEN Some(Apply(vec_call.op,
                                      unwrap(Vec2D_get(vec_call.before, r, c)),
                                      unwrap(Vec2D_get(other, r, c))))
                      ELSE None)
    /\ [][other' = other]_vars

\* C14's case: op has combined two grids of two cells or more, the cells of
\* self not all the same before the call.
C14_Witness ==
    /\ vec_call.fn = "op"
    /\ vec_call.ret = Ok(Unit)
    /\ grid.rows * grid.cols >= 2
    /\ \E r \in Dims, c \in Dims :
          /\ Vec2D_get(vec_call.before, r, c) # None
          /\ Vec2D_get(vec_call.before, r, c) # Vec2D_get(vec_call.before, 0, 0)
    /\ grid # vec_call.before

\* C15: op on two grids whose rows or cols differ returns the error and
\* leaves self and other as they were.
C15_OpDimensionMismatch ==
    /\ []((vec_call.fn = "op" /\ (vec_call.before.rows # other.rows
                                 \/ vec_call.before.cols # other.cols)) =>
            /\ vec_call.ret = Err
            /\ grid = vec_call.before)
    /\ [][other' = other]_vars

\* C15's case: op was called with grids that both have cells, of the same
\* number of rows and different numbers of columns.
C15_Witness ==
    /\ vec_call.fn = "op"
    /\ grid.rows = other.rows
    /\ grid.cols # other.cols
    /\ grid.rows * grid.cols >= 1
    /\ other.rows * other.cols >= 1

\* C16: on a grid built by new and changed by set and op only, get returns
\* Some exactly for r < rows and c < cols, and a set with r >= rows or
\* c >= cols returns None and leaves the grid as it was.
C16_BoundsChecked ==
    /\ \A r \in Dims, c \in Dims :
          (Vec2D_get(grid, r, c) # None) <=> (r < grid.rows /\ c < grid.cols)
    /\ (vec_call.fn = "set" /\ (vec_call.row >= vec_call.before.rows
                                \/ vec_call.col >= vec_call.before.cols)) =>
          /\ vec_call.ret = None
          /\ grid = vec_call.before

\* C16's case: after an earlier call, set was called on a grid with cells
\* with a row outside the grid and a column inside.
C16_Witness ==
    /\ vec_call.fn = "set"
    /\ vec_call.n = MaxCalls
    /\ grid.rows * grid.cols >= 1
    /\ vec_call.row >= grid.rows
    /\ vec_call.col < grid.cols

\* C17: after a set that returned Some(()), get of that cell returns the
\* value set, every other cell has the value it had, rows and cols are
\* unchanged, and iter yields the cells row by row.
C17_SetFrame ==
    (vec_call.fn = "set" /\ vec_call.ret = Some(Unit)) =>
        /\ Vec2D_get(grid, vec_call.row, vec_call.col) = Some(vec_call.value)
        /\ \A r \in Dims, c \in Dims :
              (r # vec_call.row \/ c # vec_call.col) =>
                  Vec2D_get(grid, r, c) = Vec2D_get(vec_call.before, r, c)
        /\ grid.rows = vec_call.before.rows
        /\ grid.cols = vec_call.before.cols
        /\ Len(Vec2D_iter(grid)) = grid.rows * grid.cols
        /\ \A r \in 0..(grid.rows - 1), c \in 0..(grid.cols - 1) :
              Vec2D_iter(grid)[r * grid.cols + c + 1] = unwrap(Vec2D_get(grid, r, c))

\* C17's case: set has changed a cell of a grid of two rows and two columns.
C17_Witness ==
    /\ vec_call.fn = "set"
    /\ vec_call.ret = Some(Unit)
    /\ grid.rows >= 2
    /\ grid.cols >= 2
    /\ Vec2D_get(vec_call.before, vec_call.row, vec_call.col) # Some(vec_call.value)

RECURSIVE SoloStates(_, _, _, _)
\* The locals a search goes through when it runs alone, from st on.
SoloStates(hm, end, rev, st) ==
    {st} \cup (IF st.pc = "loop"
               THEN SoloStates(hm, end, rev, Day12Iter(hm, end, rev, st))
               ELSE {})

\* C18: under every interleaving each worker's search goes through the
\* locals it goes through alone and ends with the result it has alone, and
\* the minimum returned is the minimum of the searches run one by one.
C18_WorkersIndependent ==
    /\ \A p \in DOMAIN workers :
          /\ workers[p] \in SoloStates(unwrap(height_map), Some(unwrap(height_map).end),
                                       FALSE, Day12Locals(unwrap(height_map), p))
          /\ workers[p].pc # "loop" =>
                workers[p] = shortest_path_dijkstra(unwrap(height_map), p,
                                                    Some(unwrap(height_map).end), FALSE)
    /\ rayon_pc \in {"par", "returned"}
    /\ rayon_pc = "returned" =>
          rayon_result =
              MinOfSome({shortest_path_dijkstra(unwrap(height_map), p,
                                                Some(unwrap(height_map).end), FALSE).dist :
                            p \in SeaLevelSet(unwrap(height_map))})

\* C18's case: two workers or more have run, two of them found different
\* distances, and the minimum was returned.
C18_Witness ==
    /\ rayon_pc = "returned"
    /\ rayon_result # None
    /\ \E p, q \in DOMAIN workers :
          /\ workers[p].dist # None
          /\ workers[q].dist # None
          /\ workers[p].dist # workers[q].dist

\* C19: in every step of dijkstra, every vertex that has an entry in
\* tentative_distances keeps one, and the entry is the same or strictly
\* smaller: no entry is removed, none is raised.
C19_EntriesOnlyDecrease ==
    [][\A c \in Calls :
          \A v \in DOMAIN tentative_distances[c] :
             /\ v \in DOMAIN tentative_distances'[c]
             /\ tentative_distances'[c][v] <= tentative_distances[c][v]]_vars

\* C19's case: an entry was lowered: a neighbour of start, written in the
\* first iteration with the cost of its edge, now has a smaller entry.
C19_Witness ==
    \E v \in all_nodes :
        /\ << start[1], v >> \in DOMAIN graph
        /\ v \in DOMAIN tentative_distances[1]
        /\ start[1] \notin unvisited[1]
        /\ current[1] # start[1]
        /\ tentative_distances[1][v] < graph[<< start[1], v >>]

\* C20: in every step of dijkstra the entry of a vertex that was removed
\* from the unvisited set stays as it is, and the vertex the step selects as
\* current is an unvisited one, never a removed one.
C20_VisitedAreFinal ==
    [][\A c \in Calls :
          /\ \A v \in (all_nodes \ unvisited[c]) \cap DOMAIN tentative_distances[c] :
                /\ v \in DOMAIN tentative_distances'[c]
                /\ tentative_distances'[c][v] = tentative_distances[c][v]
                /\ v \notin unvisited'[c]
          /\ current'[c] # current[c] =>
                /\ current'[c] \in unvisited'[c]
                /\ current'[c] \notin all_nodes \ unvisited[c]]_vars

\* C20's case: the current vertex has an edge to a removed vertex over which
\* the entry of that vertex would be lowered.
C20_Witness ==
    /\ pc[1] = "loop"
    /\ current[1] \in DOMAIN tentative_distances[1]
    /\ \E v \in (all_nodes \ unvisited[1]) \cap DOMAIN tentative_distances[1] :
          /\ << current[1], v >> \in DOMAIN graph
          /\ tentative_distances[1][current[1]] + graph[<< current[1], v >>]
                 < tentative_distances[1][v]

\* C21: in every iteration of a_start that selects a current node, the node
\* is in the open set, no scored open-set node has a smaller f-score, and of
\* the open-set nodes of that f-score it is the least.
C21_CurrentIsLeastOfMinimalF ==
    [][(a_pc = "loop" /\ open_set # {} /\ avars' # avars) =>
          /\ a_current' # None
          /\ LET cur == a_current'[1]
             IN /\ cur \in open_set
                /\ cur \in DOMAIN f_score
                /\ \A q \in Scored(open_set, f_score) :
                      \/ f_score[cur] < f_score[q]
                      \/ f_score[cur] = f_score[q] /\ cur <= q]_vars

\* C21's case: the node selected last shared its f-score with a greater node
\* of the open set: that node is no neighbour of it, so it was in the open
\* set with the same f-score when the selection was made.
C21_Witness ==
    /\ a_pc = "loop"
    /\ a_current # None
    /\ \E q \in open_set :
          /\ q > a_current[1]
          /\ << a_current[1], q >> \notin DOMAIN graph
          /\ f_score[q] = f_score[a_current[1]]

\* C22: with costs of 0 and more and any heuristic, a_start returns in the
\* end; until then it neither panics nor hangs; came_from never holds a cycle,
\* so reconstruct_path's walk ends from every node; and once a_start has
\* returned for a goal that start reaches, its result is Some(path).
C22_AStarTerminates ==
    /\ <>(a_pc = "returned")
    /\ [](a_pc \in {"loop", "returned"})
    /\ [](\A n \in Nodes : reconstruct_path(came_from, n) # Diverged)
    /\ []((a_pc = "returned" /\ goal[1][1] \in Reachable(graph, FALSE, start[1]))
             => a_result # None)

\* C22's case: a_start returned a path under a heuristic that is not
\* admissible, on a graph with an edge of cost 0 back into start, and the path
\* costs more than the cheapest one.
C22_Witness ==
    /\ a_pc = "returned" /\ a_result # None
    /\ ~Admissible(graph, heuristic, goal[1][1])
    /\ \E e \in DOMAIN graph : e[2] = start[1] /\ graph[e] = 0
    /\ WalkCost(graph, FALSE, a_result[1] \o goal[1])
          > Least(SimplePathCosts(graph, FALSE, start[1], goal[1][1]))

\* C23: on every input, dijkstra returns in the end and never panics; every
\* iteration takes current out of the unvisited set, and current was in it
\* except in the first iteration of a call whose start is outside all_nodes;
\* so the body of the loop is entered at most |all_nodes| + 1 times.
C23_DijkstraTerminates ==
    /\ <>(pc[1] = "returned")
    /\ [](pc[1] \in {"loop", "returned"})
    /\ [](iterations[1] <= Cardinality(all_nodes) + 1)
    /\ [][pc[1] = "loop" =>
            /\ unvisited'[1] = unvisited[1] \ {current[1]}
            /\ \/ current[1] \in unvisited[1]
               \/ /\ iterations[1] = 0
                  /\ current[1] = start[1]
                  /\ start[1] \notin all_nodes]_vars

\* C23's case: a call with start outside all_nodes, a goal outside all_nodes
\* and an edge of negative cost has returned after |all_nodes| + 1 iterations.
C23_Witness ==
    /\ pc[1] = "returned"
    /\ start[1] \notin all_nodes
    /\ goal[1] # None /\ goal[1][1] \notin all_nodes
    /\ \E e \in DOMAIN graph : graph[e] < 0
    /\ all_nodes # {}
    /\ iterations[1] = Cardinality(all_nodes) + 1

\* a_start is about to run an iteration that relaxes the neighbours of the
\* node it selects.
AStarExpands ==
    /\ a_pc = "loop"
    /\ Scored(open_set, f_score) # {}
    /\ Some(MinOpen(open_set, f_score)) # goal[1]

\* The four collections after the first k neighbours of cur were relaxed in
\* the iteration a_start is about to run.
AfterNeighbours(cur, k) ==
    AStarRelax(graph, heuristic, cur, SubSeq(neighbors(graph, FALSE, cur), 1, k),
               [open_set |-> open_set \ {cur}, came_from |-> came_from,
                g_score |-> g_score, f_score |-> f_score])

\* C24: in every iteration of a_start, for each neighbour in turn: when its
\* tentative g-score is smaller than its g-score, or it has none, then after
\* the step came_from has current for it, g_score the tentative g-score,
\* f_score that plus its heuristic, and it is in the open set, whether or not
\* it was there before; nothing else changes; and when the tentative g-score
\* is not smaller, the four collections are left as they were.
C24_RelaxationStep ==
    AStarExpands =>
        LET cur == MinOpen(open_set, f_score)
            nbrs == neighbors(graph, FALSE, cur)
        IN \A k \in 1..Len(nbrs) :
              LET before == AfterNeighbours(cur, k - 1)
                  after == AfterNeighbours(cur, k)
                  neighbor == nbrs[k]
                  tentative_g_score == before.g_score[cur] + graph[<< cur, neighbor >>]
              IN IF neighbor \notin DOMAIN before.g_score
                    \/ tentative_g_score < before.g_score[neighbor]
                 THEN /\ after.came_from = Insert(before.came_from, neighbor, cur)
                      /\ after.g_score = Insert(before.g_score, neighbor, tentative_g_score)
                      /\ after.f_score = Insert(before.f_score, neighbor,
                                                tentative_g_score + heuristic[neighbor])
                      /\ after.open_set = before.open_set \cup {neighbor}
                      /\ after.came_from[neighbor] = cur
                      /\ after.g_score[neighbor] = tentative_g_score
                      /\ after.f_score[neighbor] = tentative_g_score + heuristic[neighbor]
                      /\ neighbor \in after.open_set
                 ELSE after = before

\* C24's case: the node a_start is about to expand has a neighbour that left
\* the open set earlier and whose g-score the step lowers.
C24_Witness ==
    /\ AStarExpands
    /\ LET cur == MinOpen(open_set, f_score)
       IN \E n \in DOMAIN g_score \ open_set :
             /\ << cur, n >> \in DOMAIN graph
             /\ g_score[cur] + graph[<< cur, n >>] < g_score[n]

\* C25: in every state of a_start each open-set node has an f-score and a
\* g-score, the f-score of every scored node is its g-score plus its
\* heuristic, and the node the next iteration selects has a g-score: neither
\* the unwrap of the selection nor the index g_score[&current] panics.
C25_OpenNodesAreScored ==
    /\ a_pc # "panic"
    /\ open_set \subseteq DOMAIN f_score
    /\ open_set \subseteq DOMAIN g_score
    /\ DOMAIN f_score = DOMAIN g_score
    /\ \A n \in DOMAIN f_score : f_score[n] = g_score[n] + heuristic[n]
    /\ (a_pc = "loop" /\ open_set # {}) =>
          /\ Scored(open_set, f_score) # {}
          /\ MinOpen(open_set, f_score) \in DOMAIN g_score

\* C25's case: the search goes on with three scored nodes or more, one of
\* them out of the open set, and an open node whose heuristic is not 0.
C25_Witness ==
    /\ a_pc = "loop"
    /\ Cardinality(DOMAIN f_score) >= 3
    /\ DOMAIN g_score \ open_set # {}
    /\ \E n \in open_set : heuristic[n] > 0 /\ g_score[n] > 0

\* C26: a path that a_start returns for a goal other than start begins with
\* start, each of its nodes is followed by one of its neighbours, the goal is
\* a neighbour of its last node, no node occurs twice in it nor is the goal
\* in it, and it has as many elements as the walk from start to the goal has
\* edges.
C26_PathIsWalk ==
    (a_pc = "returned" /\ a_result # None /\ goal[1] # Some(start[1])) =>
        LET path == a_result[1]
            walk == path \o goal[1]
        IN /\ path # << >>
           /\ Head(path) = start[1]
           /\ \A i \in 1..(Len(path) - 1) : << path[i], path[i + 1] >> \in DOMAIN graph
           /\ << path[Len(path)], goal[1][1] >> \in DOMAIN graph
           /\ \A i, j \in 1..Len(walk) : walk[i] = walk[j] => i = j
           /\ Len(path) = Cardinality({i \in 1..(Len(walk) - 1) :
                                          HasEdge(graph, FALSE, walk[i], walk[i + 1])})

\* C26's case: a path of three nodes returned under a heuristic that is not
\* admissible, on a graph with an edge back into the path.
C26_Witness ==
    /\ a_pc = "returned" /\ a_result # None /\ goal[1] # Some(start[1])
    /\ Len(a_result[1]) = 3
    /\ ~Admissible(graph, heuristic, goal[1][1])
    /\ \E e \in DOMAIN graph : e[2] \in Elements(a_result[1]) /\ e[1] = goal[1][1]

\* C27: a_start called with start = goal returns in its first iteration, the
\* result is Some of the empty sequence, and the collections are those of
\* before the loop: no neighbour was relaxed, no cost was added.
C27_StartIsGoal ==
    /\ [](goal[1] = Some(start[1]) =>
             /\ a_pc \in {"loop", "returned"}
             /\ a_pc = "loop" => a_current = None
             /\ a_pc = "returned" => (a_result = Some(<< >>) /\ a_current = Some(start[1]))
             /\ open_set = {start[1]}
             /\ came_from = << >>
             /\ g_score = (start[1] :> 0)
             /\ f_score = (start[1] :> heuristic[start[1]]))
    /\ [][(goal[1] = Some(start[1]) /\ a_pc = "loop") => a_pc' = "returned"]_vars

\* C27's case: a_start has returned for a goal that is its start, a node
\* with two neighbours or more, one of them over an edge of cost 0.
C27_Witness ==
    /\ a_pc = "returned"
    /\ goal[1] = Some(start[1])
    /\ Cardinality({e \in DOMAIN graph : e[1] = start[1]}) >= 2
    /\ \E e \in DOMAIN graph : e[1] = start[1] /\ graph[e] = 0

\* C28: in every state of dijkstra the keys of tentative_distances are start
\* and vertices of all_nodes, the current vertex is one of them, and each key
\* is reached from start over vertices of all_nodes alone: a vertex that start
\* reaches only through a neighbour outside all_nodes has no entry.
C28_KeysWithinAllNodes ==
    \A c \in Calls :
        /\ DOMAIN tentative_distances[c] \subseteq all_nodes \cup {start[c]}
        /\ current[c] \in all_nodes \cup {start[c]}
        /\ \A v \in DOMAIN tentative_distances[c] :
              PathCostsIn(graph, all_nodes, start[c], v, {start[c]}) # {}

\* C28's case: the search returned, start has a neighbour outside all_nodes
\* that got no entry, and a vertex of all_nodes that start reaches through
\* that neighbour alone has none either.
C28_Witness ==
    /\ pc[1] = "returned"
    /\ goal[1] = None
    /\ \E n \in Nodes \ (all_nodes \cup {start[1]}) :
          /\ << start[1], n >> \in DOMAIN graph
          /\ n \notin DOMAIN tentative_distances[1]
          /\ \E v \in all_nodes \ {start[1]} :
                /\ << n, v >> \in DOMAIN graph
                /\ v \in Reachable(graph, FALSE, start[1])
                /\ v \notin DOMAIN tentative_distances[1]

\* Call 1 of dijkstra returned because its goal was reached, on a graph
\* without negative cost.
EarlyStop ==
    /\ pc[1] = "returned"
    /\ distance_to_end[1] # None
    /\ \A e \in DOMAIN graph : graph[e] >= 0

\* C29 as stated: after an early stop every key of the map is a removed
\* vertex holding its shortest distance in the graph, or an unvisited vertex
\* holding at least its shortest distance and at least distance_to_end.
C29_EarlyStopMap ==
    EarlyStop =>
        \A v \in DOMAIN tentative_distances[1] :
            LET shortest == Least(SimplePathCosts(graph, FALSE, start[1], v))
            IN IF v \in all_nodes \ unvisited[1]
               THEN tentative_distances[1][v] = shortest
               ELSE /\ v \in unvisited[1]
                    /\ tentative_distances[1][v] >= shortest
                    /\ tentative_distances[1][v] >= distance_to_end[1][1]

\* C29 amended: after an early stop every key of the map is a removed vertex
\* holding its shortest distance over the vertices of all_nodes, or an
\* unvisited vertex holding at least that distance and at least
\* distance_to_end, or it is start, which a call with start outside all_nodes
\* keeps at 0 without its being unvisited or removed.
C29_EarlyStopMapWithinAllNodes ==
    EarlyStop =>
        \A v \in DOMAIN tentative_distances[1] :
            LET shortest == Least(PathCostsIn(graph, all_nodes, start[1], v, {start[1]}))
            IN IF v \in all_nodes \ unvisited[1]
               THEN tentative_distances[1][v] = shortest
               ELSE IF v \in unvisited[1]
               THEN /\ tentative_distances[1][v] >= shortest
                    /\ tentative_distances[1][v] >= distance_to_end[1][1]
               ELSE /\ v = start[1]
                    /\ start[1] \notin all_nodes
                    /\ tentative_distances[1][v] = 0

\* C29's case: an early stop that removed a vertex and left an unvisited key
\* above its shortest distance.
C29_Witness ==
    /\ EarlyStop
    /\ all_nodes \ unvisited[1] # {}
    /\ \E v \in unvisited[1] \cap DOMAIN tentative_distances[1] :
          tentative_distances[1][v]
              > Least(PathCostsIn(graph, all_nodes, start[1], v, {start[1]}))

\* C30: for every height map, start cell, optional end cell and get_neighbors
\* closure, HeightMap::shortest_path_dijkstra returns and gives the goal
\* distance that the generic dijkstra gives over the same cells and
\* neighbours at cost 1; and without end cell a cell is None in its grid
\* exactly when the generic map has no key for it, and holds the generic
\* map's distance otherwise.
C30_Day12RefinesDijkstra ==
    (height_map # Err /\ workers # << >> /\ pc[1] = "returned") =>
        LET map == unwrap(height_map).map
            cells == RowMajor(map)
        IN \A from \in DOMAIN workers :
              /\ workers[from].pc = "returned"
              /\ workers[from].dist = distance_to_end[1]
              /\ goal[1] = None =>
                    /\ DOMAIN tentative_distances[1] \subseteq DOMAIN cells
                    /\ \A i \in DOMAIN cells :
                          LET cell == unwrap(Vec2D_get(workers[from].tentative_distances,
                                                       cells[i].row, cells[i].col))
                          IN IF cell = None
                             THEN i \notin DOMAIN tentative_distances[1]
                             ELSE /\ i \in DOMAIN tentative_distances[1]
                                  /\ tentative_distances[1][i] = unwrap(cell)

\* C30's case: both searches returned, without end cell, on a height map
\* with a cell that is not reached and a cell two steps or more away.
C30_Witness ==
    /\ height_map # Err /\ workers # << >> /\ pc[1] = "returned"
    /\ goal[1] = None
    /\ Cardinality(DOMAIN tentative_distances[1]) < Cardinality(all_nodes)
    /\ \E i \in DOMAIN tentative_distances[1] : tentative_distances[1][i] >= 2

====
